---------------------------- MODULE Spec2Model ----------------------------
(***************************************************************************)
(* A model of the ingestion / dedup / batch / classify / relay pipeline of *)
(* odesair: the scheduling loop of monitorChannels (src/claude.go), the    *)
(* cursor tracking of processNewMessages and the hand-off of a batch to    *)
(* handleAIInteraction.                                                    *)
(*                                                                         *)
(* Time is counted in seconds from the creation of fetchTicker.  The loop  *)
(* is a single goroutine: it waits at the select (pc = "select"), runs a   *)
(* handler, and returns to the select.  The handler of a tick (the gate    *)
(* check and the fetches) takes between 0 and MaxFetchTime seconds; the    *)
(* call of handleAIInteraction (classification and relay post) takes       *)
(* between 0 and MaxFlushTime seconds, during which the loop is inside the *)
(* timer case (pc = "flush").                                              *)
(***************************************************************************)
EXTENDS Integers, Sequences, FiniteSets, TLC

(***************************************************************************)
(* Configuration (loadConfig).                                             *)
(***************************************************************************)
UpdateInterval == 5
DefaultAIBatchInterval == 30
DefaultAIBatchExtendDuration == 3
MessageLimit == 1
Channels == {"odessa_infonews", "xydessa_live"}

\* config.Channels is a slice: the loop visits the channels in this order.
ChannelOrder == <<"odessa_infonews", "xydessa_live">>

(***************************************************************************)
(* Constants of the classifier clients.  The clients of src/main.go carry  *)
(* the suffix Main.                                                        *)
(***************************************************************************)
maxMessageHistory == 20
maxMessageHistoryMain == 30
maxRetries == 30
baseDelay == 1
maxRetriesMain == 3
baseDelayMain == 2
maxRetriesClaudeMain == 3

(***************************************************************************)
(* Bounds of the model.                                                    *)
(***************************************************************************)
MaxTime == 78
MaxPosts == 2
MaxFlushTime == 6
MaxFetchTime == 1
MaxSeqID == 3
MaxPollLen == 2
MaxOverflow == 2
MaxFailedSends == 1
MaxPreambles == 1

ZeroTime == 0

VARIABLES
    now,             \* wall clock, seconds since fetchTicker was created
    ctxDone,         \* ctx.Done() is closed
    pc,              \* "select" | "flush" | "done"
    fetchTickerC,    \* a tick waits in fetchTicker.C (capacity 1)
    nextTick,        \* when fetchTicker fires next
    batchTimer,      \* [set, fireAt]: batchTimer # nil, and when it fires
    batchDeadline,   \* batchDeadline, ZeroTime when reset
    lastMessageIDs,  \* the cursor map
    messageBuffer,   \* the batch buffer
    messagesToSend,  \* the batch handed to handleAIInteraction
    source,          \* what getMessages returns for each channel
    lastOp,          \* observation: the last step taken
    windowStart,     \* observation: when the open window's first enqueue was
    windowTicks,     \* observation: enqueues into the open window
    flushAt,         \* observation: when the batch in flight was taken
    enqCount,        \* observation: times each item was appended to the buffer
    flushCount,      \* observation: batches each item was handed over in
    admitted,        \* observation: sequence ids admitted so far, per source
    poll,            \* observation: the last call of processNewMessages
    config,          \* the Config of loadConfig (the fields read here)
    clientType,      \* the concrete type behind aiClient
    MessageHistory,  \* aiClient.MessageHistory
    appended,        \* observation: every entry ever appended, in order
    sendPc,          \* "idle" | "dispatch" | "returned" | "relayed"
    attempt,         \* the loop variable of SendMessage (from 0)
    lastError,       \* lastError / lastErr of SendMessage
    lastReply,       \* observation: what the latest attempt got back
    slept,           \* observation: time slept since the last dispatch
    delays,          \* observation: the sleep before each dispatch of the call
    sendResult,      \* what SendMessage returned
    relay,           \* what handleAIInteraction did with the result
    sends,           \* observation: calls of SendMessage so far
    irregular,       \* observation: failed calls and direct appends so far
    runtimeTimers,   \* observation: timers of the runtime, by firing time,
                     \* neither stopped nor received from
    posts,           \* observation: how each call of sendToTelegram for the
                     \* current result ended
    sentSystemMessage, \* observation: the preamble of the latest request
    systemMessageFile, \* the content of the file, as a version number
    SystemMessage,   \* aiClient.SystemMessage, as a version number
    updating,        \* the watcher has read the file and is about to assign
    mu,              \* mu is locked
    io,              \* the network operation under way, "none" when none
    step,            \* where the loop is between locks and network calls
    channelIndex,    \* the position of the loop over config.Channels
    gotMessages,     \* what getMessages returned for the channel
    newlyFetched,    \* the messages collected in the tick so far
    mergedMessage,   \* the message handed to SendMessage
    UseCodingPlan,   \* the field of GLMClient set at construction
    imageHistory,    \* MessageHistory with the Images of every entry
    apiMessages      \* the history part of the last request body

vars == <<now, ctxDone, pc, fetchTickerC, nextTick, batchTimer, batchDeadline,
          lastMessageIDs, messageBuffer, messagesToSend, source, lastOp,
          windowStart, windowTicks, flushAt, enqCount, flushCount, admitted,
          poll, config, clientType, MessageHistory, appended, sendPc, attempt,
          lastError, lastReply, slept, delays, sendResult, relay, sends,
          irregular, runtimeTimers, posts, sentSystemMessage,
          systemMessageFile, SystemMessage, updating, mu, io, step,
          channelIndex, gotMessages, newlyFetched, mergedMessage,
          UseCodingPlan,
          imageHistory, apiMessages>>

loopVars == <<now, ctxDone, pc, fetchTickerC, nextTick, batchTimer,
              batchDeadline, messageBuffer, messagesToSend, source, lastOp,
              windowStart, windowTicks, flushAt, enqCount, flushCount,
              runtimeTimers>>

\* The state of the classifier client and of handleAIInteraction.
clientVars == <<clientType, MessageHistory, appended, sendPc, attempt,
                lastError, lastReply, slept, delays, sendResult, relay, sends,
                irregular, posts, sentSystemMessage>>

\* The instruction preamble and its watcher (watchSystemMessageFile).
preambleVars == <<systemMessageFile, SystemMessage, updating>>

\* The loop of monitorChannels seen lock by lock and call by call.
lockVars == <<mu, io, step, channelIndex, gotMessages, newlyFetched,
              mergedMessage>>

\* The variables of the other parts of the program.
\* The request body built from a history with images.
attachVars == <<UseCodingPlan, imageHistory, apiMessages>>

NoMessage == [Content |-> <<>>, Images |-> <<>>]

NoRequest == <<[role |-> "none", text |-> "", parts |-> <<>>]>>

auxVars == <<preambleVars, lockVars, attachVars>>

\* Everything the scheduling loop and the cursor tracker leave alone.
sideVars == <<config, clientVars, auxVars>>

\* AI_INTERACTION_INTERVAL and AI_BATCH_EXTEND_DURATION as loadConfig read
\* them; the defaults apply when the variables are unset or do not parse.
AIBatchInterval == config.AIBatchInterval

AIBatchExtendDuration == config.AIBatchExtendDuration

DefaultConfig ==
    [AIBatchInterval |-> DefaultAIBatchInterval,
     AIBatchExtendDuration |-> DefaultAIBatchExtendDuration,
     EnableTelegramSend |-> TRUE]

Items == [src : Channels, id : 1..MaxPosts]

NilTimer == [set |-> FALSE, fireAt |-> ZeroTime]

NoPoll == [src |-> "", pre |-> 0, in |-> <<>>, trace |-> <<>>, new |-> <<>>]

Max(a, b) == IF a >= b THEN a ELSE b

Min(a, b) == IF a <= b THEN a ELSE b

RECURSIVE SetMax(_)
SetMax(S) ==
    IF S = {} THEN 0
    ELSE LET x == CHOOSE y \in S : TRUE
         IN Max(x, SetMax(S \ {x}))

(***************************************************************************)
(* processNewMessages: the loop runs from the last entry of messages to    *)
(* the first.  An entry is taken when its id is above latestMessageID, the *)
(* watermark read before the loop; the stored watermark is raised when the *)
(* id is above the stored one.  trace records, for every entry visited,    *)
(* the watermark stored at that moment and the decision.                   *)
(***************************************************************************)
\* Mutation: an id equal to the watermark is taken again.
AdmitTestAtOrAbove(id, latestMessageID) == id >= latestMessageID

AdmitTest(id, latestMessageID) == id > latestMessageID

\* Mutation: the watermark is set to every id taken, without the comparison.
RaiseWatermarkAlways(id, stored) == id

RaiseWatermark(id, stored) == IF id > stored THEN id ELSE stored

RECURSIVE ProcessFrom(_, _, _, _, _, _)
ProcessFrom(messages, i, latestMessageID, stored, newMessages, trace) ==
    IF i = 0
    THEN [newMessages |-> newMessages, stored |-> stored, trace |-> trace]
    ELSE LET id == messages[i].id
             take == AdmitTest(id, latestMessageID)
             entry == [id |-> id, stored |-> stored, accepted |-> take]
         IN IF take
            THEN ProcessFrom(messages, i - 1, latestMessageID,
                             RaiseWatermark(id, stored),
                             Append(newMessages, messages[i]),
                             Append(trace, entry))
            ELSE ProcessFrom(messages, i - 1, latestMessageID, stored,
                             newMessages, Append(trace, entry))

processNewMessages(channelID, messages, ids) ==
    LET r == ProcessFrom(messages, Len(messages), ids[channelID],
                         ids[channelID], <<>>, <<>>)
    IN [newMessages |-> r.newMessages,
        lastMessageIDs |-> [ids EXCEPT ![channelID] = r.stored],
        trace |-> r.trace]

IdsOf(msgs) == {msgs[i].id : i \in 1..Len(msgs)}


(***************************************************************************)
(* State after construction: monitorChannels has created fetchTicker, the  *)
(* timer variables are nil / zero, the cursor map and the buffer are empty.*)
(* initAIClient has built the client with an empty history; no call of     *)
(* SendMessage has been made.                                              *)
(***************************************************************************)
\* No request has been sent.
NoSystemMessage == -1

\* A value read while it was being written.
TornSystemMessage == -2

NoResult == [ok |-> FALSE, err |-> "", resp |-> <<>>]

NoRelay == [send |-> FALSE, silent |-> FALSE, body |-> <<>>]

InitClient ==
    /\ MessageHistory = <<>>
    /\ appended = <<>>
    /\ sendPc = "idle"
    /\ attempt = 0
    /\ lastError = ""
    /\ lastReply = ""
    /\ slept = 0
    /\ delays = <<>>
    /\ sendResult = NoResult
    /\ relay = NoRelay
    /\ sends = 0
    /\ irregular = 0
    /\ posts = <<>>
    /\ sentSystemMessage = NoSystemMessage

\* readSystemMessage at the start: version 0 of the file.
InitAux ==
    /\ systemMessageFile = 0
    /\ SystemMessage = 0
    /\ updating = FALSE
    /\ mu = FALSE
    /\ io = "none"
    /\ step = "select"
    /\ channelIndex = 0
    /\ gotMessages = <<>>
    /\ newlyFetched = <<>>
    /\ mergedMessage = NoMessage
    /\ imageHistory = <<>>
    /\ apiMessages = NoRequest

InitLoopVars ==
    /\ now = 0
    /\ ctxDone = FALSE
    /\ pc = "select"
    /\ fetchTickerC = FALSE
    /\ nextTick = UpdateInterval
    /\ batchTimer = NilTimer
    /\ batchDeadline = ZeroTime
    /\ lastMessageIDs = [c \in Channels |-> 0]
    /\ messageBuffer = <<>>
    /\ messagesToSend = <<>>
    /\ source = [c \in Channels |-> <<>>]
    /\ lastOp = "init"
    /\ windowStart = ZeroTime
    /\ windowTicks = 0
    /\ flushAt = ZeroTime
    /\ enqCount = [it \in Items |-> 0]
    /\ flushCount = [it \in Items |-> 0]
    /\ admitted = [c \in Channels |-> {}]
    /\ poll = NoPoll
    /\ runtimeTimers = {}

\* No GLMClient is constructed: the field has the zero value.
InitLoop ==
    /\ InitLoopVars
    /\ InitAux
    /\ UseCodingPlan = FALSE

\* The environment sets none of the variables loadConfig reads.
Init ==
    /\ InitLoop
    /\ config = DefaultConfig
    /\ clientType = "chatgpt"
    /\ InitClient

(***************************************************************************)
(* The select of the loop: which cases are ready.                          *)
(***************************************************************************)
TimerReady == batchTimer.set /\ now >= batchTimer.fireAt

TickReady == fetchTickerC

SomethingReady == ctxDone \/ TickReady \/ TimerReady

(***************************************************************************)
(* The clock.  fetchTicker delivers a tick every UpdateInterval into a     *)
(* channel of capacity 1: a tick that finds the channel full is dropped.   *)
(***************************************************************************)
TickerAfter(t) ==
    IF t >= nextTick
    THEN [c |-> TRUE, next |-> nextTick + UpdateInterval]
    ELSE [c |-> fetchTickerC, next |-> nextTick]

\* The same after the handler of the tick case has taken the waiting tick.
TickerAfterTake(t) ==
    IF t >= nextTick
    THEN [c |-> TRUE, next |-> nextTick + UpdateInterval]
    ELSE [c |-> FALSE, next |-> nextTick]

\* The select blocks until the first of the ticker and the timer fires.
WaitAtSelect ==
    /\ pc = "select"
    /\ ~SomethingReady
    /\ LET t == IF batchTimer.set THEN Min(nextTick, batchTimer.fireAt)
                ELSE nextTick
       IN /\ t <= MaxTime
          /\ now' = t
          /\ fetchTickerC' = TickerAfter(t).c
          /\ nextTick' = TickerAfter(t).next
    /\ lastOp' = "wait"
    /\ UNCHANGED <<ctxDone, pc, batchTimer, batchDeadline, lastMessageIDs,
                   messageBuffer, messagesToSend, source, windowStart,
                   windowTicks, flushAt, enqCount, flushCount, admitted, poll,
                   runtimeTimers>>
    /\ UNCHANGED sideVars

\* A second passes while handleAIInteraction is running.
FlushTakesTime ==
    /\ pc = "flush"
    /\ now - flushAt < MaxFlushTime
    /\ now + 1 <= MaxTime
    /\ now' = now + 1
    /\ fetchTickerC' = TickerAfter(now + 1).c
    /\ nextTick' = TickerAfter(now + 1).next
    /\ lastOp' = "flushing"
    /\ UNCHANGED <<ctxDone, pc, batchTimer, batchDeadline, lastMessageIDs,
                   messageBuffer, messagesToSend, source, windowStart,
                   windowTicks, flushAt, enqCount, flushCount, admitted, poll,
                   runtimeTimers>>
    /\ UNCHANGED sideVars

(***************************************************************************)
(* The environment: a monitored channel receives a message (ids rise by    *)
(* one per channel); getMessages returns the newest MessageLimit messages, *)
(* newest first.  The process is interrupted (ctx is cancelled).           *)
(***************************************************************************)
NewestID(c) == IF source[c] = <<>> THEN 0 ELSE source[c][1].id

RECURSIVE Posted(_)
Posted(S) ==
    IF S = {} THEN 0
    ELSE LET c == CHOOSE x \in S : TRUE
         IN NewestID(c) + Posted(S \ {c})

Newest(msgs, limit) == SubSeq(msgs, 1, Min(Len(msgs), limit))

ChannelPost(c) ==
    /\ pc # "done"
    /\ Posted(Channels) < MaxPosts
    /\ source' = [source EXCEPT
                    ![c] = Newest(<<[id |-> NewestID(c) + 1]>> \o source[c],
                                  MessageLimit)]
    /\ lastOp' = "post"
    /\ UNCHANGED <<now, ctxDone, pc, fetchTickerC, nextTick, batchTimer,
                   batchDeadline, lastMessageIDs, messageBuffer,
                   messagesToSend, windowStart, windowTicks, flushAt,
                   enqCount, flushCount, admitted, poll,
                   runtimeTimers>>
    /\ UNCHANGED sideVars

Cancel ==
    /\ pc # "done"
    /\ ~ctxDone
    /\ ctxDone' = TRUE
    /\ lastOp' = "cancel"
    /\ UNCHANGED <<now, pc, fetchTickerC, nextTick, batchTimer, batchDeadline,
                   lastMessageIDs, messageBuffer, messagesToSend, source,
                   windowStart, windowTicks, flushAt, enqCount, flushCount,
                   admitted, poll, runtimeTimers>>
    /\ UNCHANGED sideVars

(***************************************************************************)
(* case <-fetchTicker.C, first part: with IgnoreAirAttack off the tick is  *)
(* skipped when checkAirAttackStatus fails ("error") or reports no active  *)
(* alert ("inactive").                                                     *)
(***************************************************************************)
GateOutcomes == {"error", "inactive", "active"}

\* Mutation: a failed check lets the tick through.
GateSuppressesInactiveOnly(gate) == gate = "inactive"

GateSuppresses(gate) == gate \in {"error", "inactive"}

(***************************************************************************)
(* case <-fetchTicker.C, the fetch: every channel of config.Channels in    *)
(* order; a channel whose getMessages fails is skipped; the new messages   *)
(* of the others are tagged with the channel and collected.  The content   *)
(* of a message starts with its time of day, so the cleaned content is     *)
(* never empty and every new message is collected.                         *)
(***************************************************************************)
Tag(c, msgs) == [i \in 1..Len(msgs) |-> [src |-> c, id |-> msgs[i].id]]

\* Mutation: the first channel that fails ends the tick.
RECURSIVE FetchFromStopsAtError(_, _, _, _, _)
FetchFromStopsAtError(k, results, failed, ids, newlyFetchedMessages) ==
    IF k > Len(ChannelOrder)
    THEN [lastMessageIDs |-> ids, newlyFetchedMessages |-> newlyFetchedMessages]
    ELSE LET c == ChannelOrder[k]
             r == processNewMessages(c, results[c], ids)
         IN IF c \in failed
            THEN [lastMessageIDs |-> ids,
                  newlyFetchedMessages |-> newlyFetchedMessages]
            ELSE FetchFromStopsAtError(k + 1, results, failed,
                                       r.lastMessageIDs,
                                       newlyFetchedMessages \o
                                           Tag(c, r.newMessages))

RECURSIVE FetchFrom(_, _, _, _, _)
FetchFrom(k, results, failed, ids, newlyFetchedMessages) ==
    IF k > Len(ChannelOrder)
    THEN [lastMessageIDs |-> ids, newlyFetchedMessages |-> newlyFetchedMessages]
    ELSE LET c == ChannelOrder[k]
             r == processNewMessages(c, results[c], ids)
         IN IF c \in failed
            THEN FetchFrom(k + 1, results, failed, ids, newlyFetchedMessages)
            ELSE FetchFrom(k + 1, results, failed, r.lastMessageIDs,
                           newlyFetchedMessages \o Tag(c, r.newMessages))

\* Mutation: the first timer of a window runs for the extension only.
FirstDurationIsExtend == AIBatchExtendDuration

FirstDuration == AIBatchInterval

\* Mutation: the first deadline of a window is set one extension ahead.
FirstDeadlineFromExtend(t) == t + AIBatchExtendDuration

FirstDeadline(t) == t + FirstDuration

\* Mutation: the deadline is extended from the current time.
ExtendedDeadlineFromNow(deadline, t) == t + AIBatchExtendDuration

ExtendedDeadline(deadline, t) == deadline + AIBatchExtendDuration

\* time.NewTimer(d) at time t; d = time.Until(deadline) when extending.
NewTimer(t, d) == [set |-> TRUE, fireAt |-> t + d]

Bump(count, items) ==
    [it \in Items |->
        count[it] + Cardinality({i \in 1..Len(items) : items[i] = it})]

\* Lines 548-568: the deadline and the timer after an enqueue at time t.
StartOrExtend(t) ==
    IF ~batchTimer.set
    THEN [batchDeadline |-> FirstDeadline(t),
          batchTimer |-> NewTimer(t, FirstDuration)]
    ELSE LET deadline == ExtendedDeadline(batchDeadline, t)
         IN [batchDeadline |-> deadline,
             batchTimer |-> NewTimer(t, deadline - t)]

\* Mutation: the timer being replaced is left running.
StopTimerLeaks(timers, timer) == timers

\* batchTimer.Stop(), and the receive that empties the channel when the
\* timer had fired: the timer is neither running nor waiting to be read.
StopTimer(timers, timer) ==
    IF timer.set THEN timers \ {timer.fireAt} ELSE timers

\* The value of the timer is received in the select.
Received(timers, timer) == timers \ {timer.fireAt}

\* The timers of the runtime after lines 548-568 at time t.
TimersAfterEnqueue(t) ==
    StopTimer(runtimeTimers, batchTimer) \cup {StartOrExtend(t).batchTimer.fireAt}

\* Lines 535-571: append to the buffer and start or extend the batch timer.
Enqueue(newlyFetchedMessages, t) ==
    /\ messageBuffer' = messageBuffer \o newlyFetchedMessages
    /\ batchDeadline' = StartOrExtend(t).batchDeadline
    /\ batchTimer' = StartOrExtend(t).batchTimer
    /\ runtimeTimers' = TimersAfterEnqueue(t)
    /\ IF ~batchTimer.set
       THEN /\ windowStart' = t
            /\ windowTicks' = 1
            /\ lastOp' = "enqueueIdle"
       ELSE /\ windowTicks' = windowTicks + 1
            /\ lastOp' = "enqueueOpen"
            /\ UNCHANGED windowStart
    /\ enqCount' = Bump(enqCount, newlyFetchedMessages)

\* Mutation: the timer is managed on every tick that passes the gate.
EnqueuesAlways(newlyFetchedMessages) == TRUE

\* Line 535: if len(newlyFetchedMessages) > 0.
Enqueues(newlyFetchedMessages) == Len(newlyFetchedMessages) > 0

\* The whole case: the gate check, the fetches and the enqueue, d seconds.
FetchTickerCase(gate, failed, d) ==
    /\ pc = "select"
    /\ TickReady
    /\ now + d <= MaxTime
    /\ now' = now + d
    /\ fetchTickerC' = TickerAfterTake(now + d).c
    /\ nextTick' = TickerAfterTake(now + d).next
    /\ IF GateSuppresses(gate)
       THEN /\ lastOp' = "gateSkip"
            /\ UNCHANGED <<lastMessageIDs, admitted, messageBuffer,
                           batchTimer, batchDeadline, windowStart,
                           windowTicks, enqCount, runtimeTimers>>
       ELSE LET r == FetchFrom(1, source, failed, lastMessageIDs, <<>>)
            IN /\ lastMessageIDs' = r.lastMessageIDs
               /\ admitted' = [c \in Channels |->
                                 admitted[c] \cup
                                 {it.id : it \in
                                    {x \in {r.newlyFetchedMessages[i] :
                                       i \in 1..Len(r.newlyFetchedMessages)} :
                                       x.src = c}}]
               /\ IF Enqueues(r.newlyFetchedMessages)
                  THEN Enqueue(r.newlyFetchedMessages, now + d)
                  ELSE /\ lastOp' = IF failed = {} THEN "fetchNothing"
                                     ELSE "fetchError"
                       /\ UNCHANGED <<messageBuffer, batchTimer,
                                      batchDeadline, windowStart, windowTicks,
                                      enqCount, runtimeTimers>>
    /\ UNCHANGED <<ctxDone, pc, messagesToSend, source, flushAt, flushCount,
                   poll>>
    /\ UNCHANGED sideVars

\* The tick is suppressed by the gate.
GateSkip(gate, d) ==
    /\ gate \in {"error", "inactive"}
    /\ FetchTickerCase(gate, {}, d)

\* The gate lets the tick through (or IgnoreAirAttack is on).
FetchTick(failed, d) == FetchTickerCase("active", failed, d)

(***************************************************************************)
(* The result of a classification and what handleAIInteraction does with   *)
(* it: an error is returned to the loop; otherwise, with                   *)
(* EnableTelegramSend on and StatusChanged set, the formatted response     *)
(* goes to sendToTelegram with silent = !Danger.                           *)
(***************************************************************************)
EmptyResponse == [Text |-> "", Danger |-> FALSE, StatusChanged |-> FALSE]

Responses == [Text : {"verdict"}, Danger : BOOLEAN, StatusChanged : BOOLEAN]

DangerEmoji == "danger"

SafeEmoji == "safe"

\* Mutation: the two indicators are exchanged.
EmojiSwapped(danger) == IF danger THEN SafeEmoji ELSE DangerEmoji

Emoji(danger) == IF danger THEN DangerEmoji ELSE SafeEmoji

\* fmt.Sprintf("%s %s", emoji, response.Text), piece by piece.
formatAIResponse(response) == <<Emoji(response.Danger), " ", response.Text>>

\* Mutation: a dangerous state is posted silently.
SilentWhenDanger(danger) == danger

Silent(danger) == ~danger

\* Mutation: the result is relayed whether or not SendMessage failed.
RelayOfIgnoresError(cfg, result) ==
    IF cfg.EnableTelegramSend /\ result.resp.StatusChanged
    THEN [send |-> TRUE, silent |-> Silent(result.resp.Danger),
          body |-> formatAIResponse(result.resp)]
    ELSE NoRelay

RelayOf(cfg, result) ==
    IF result.ok /\ cfg.EnableTelegramSend /\ result.resp.StatusChanged
    THEN [send |-> TRUE, silent |-> Silent(result.resp.Danger),
          body |-> formatAIResponse(result.resp)]
    ELSE NoRelay

\* What SendMessage can return to handleAIInteraction: an error (the Claude
\* client of src/main.go returns the response parsed last with it), or a
\* response.
FlushResults ==
    [ok : {FALSE}, err : {"terminal"},
     resp : {EmptyResponse, [EmptyResponse EXCEPT !.StatusChanged = TRUE]}]
    \cup [ok : {TRUE}, err : {""}, resp : Responses]

(***************************************************************************)
(* case <-batchTimerChan: with an empty buffer the timer state is reset;   *)
(* otherwise the buffer is copied to messagesToSend and cleared, the timer *)
(* state is reset, and handleAIInteraction is called from the loop itself. *)
(***************************************************************************)
\* Mutation: the timer state is not reset when the timer case runs.
ResetTimerKeeps == batchTimer

ResetTimer == NilTimer

\* Mutation: the buffer is copied for sending and not cleared.
TakeBufferKeeps(buffer) == [messagesToSend |-> buffer, messageBuffer |-> buffer]

TakeBuffer(buffer) == [messagesToSend |-> buffer, messageBuffer |-> <<>>]

TimerFire ==
    /\ pc = "select"
    /\ TimerReady
    /\ IF Len(messageBuffer) = 0
       THEN /\ lastOp' = "emptyFire"
            /\ UNCHANGED <<pc, messageBuffer, messagesToSend, flushAt,
                           flushCount, windowStart, windowTicks>>
       ELSE /\ messagesToSend' = TakeBuffer(messageBuffer).messagesToSend
            /\ messageBuffer' = TakeBuffer(messageBuffer).messageBuffer
            /\ pc' = "flush"
            /\ flushAt' = now
            /\ flushCount' = Bump(flushCount, messagesToSend')
            /\ lastOp' = "flushStart"
            /\ UNCHANGED <<windowStart, windowTicks>>
    /\ batchTimer' = ResetTimer
    /\ batchDeadline' = ZeroTime
    /\ runtimeTimers' = Received(runtimeTimers, batchTimer)
    /\ UNCHANGED <<now, ctxDone, fetchTickerC, nextTick, lastMessageIDs,
                   source, enqCount, admitted, poll>>
    /\ UNCHANGED sideVars

\* handleAIInteraction returns: the error of SendMessage is logged, a
\* response is relayed; back to the select.
FlushDone(result) ==
    /\ pc = "flush"
    /\ pc' = "select"
    /\ messagesToSend' = <<>>
    /\ flushAt' = ZeroTime
    /\ windowStart' = ZeroTime
    /\ windowTicks' = 0
    /\ relay' = RelayOf(config, result)
    /\ lastOp' = IF result.ok THEN "flushDone" ELSE "flushFailed"
    /\ UNCHANGED <<now, ctxDone, fetchTickerC, nextTick, batchTimer,
                   batchDeadline, lastMessageIDs, messageBuffer, source,
                   enqCount, flushCount, admitted, poll, runtimeTimers>>
    /\ UNCHANGED <<config, clientType, MessageHistory, appended, sendPc,
                   attempt, lastError, lastReply, slept, delays, sendResult,
                   sends, irregular, posts, sentSystemMessage, auxVars>>

\* Mutation: the select has no case for ctx.Done().
CancelObservedNever == FALSE

\* The case <-ctx.Done() of the select is ready.
CancelObserved == ctxDone

\* case <-ctx.Done(): return; the deferred stopAndResetTimer runs.
Exit ==
    /\ pc = "select"
    /\ CancelObserved
    /\ pc' = "done"
    /\ batchTimer' = NilTimer
    /\ batchDeadline' = ZeroTime
    /\ runtimeTimers' = StopTimer(runtimeTimers, batchTimer)
    /\ lastOp' = "exit"
    /\ UNCHANGED <<now, ctxDone, fetchTickerC, nextTick, lastMessageIDs,
                   messageBuffer, messagesToSend, source, windowStart,
                   windowTicks, flushAt, enqCount, flushCount, admitted, poll>>
    /\ UNCHANGED sideVars

Next ==
    \/ WaitAtSelect
    \/ FlushTakesTime
    \/ \E c \in Channels : ChannelPost(c)
    \/ Cancel
    \/ \E gate \in {"error", "inactive"} : \E d \in 0..MaxFetchTime :
          GateSkip(gate, d)
    \/ \E failed \in SUBSET Channels : \E d \in 0..MaxFetchTime :
          FetchTick(failed, d)
    \/ TimerFire
    \/ \E result \in FlushResults : FlushDone(result)
    \/ Exit

Spec == Init /\ [][Next]_vars

\* The same with the scheduling the runtime gives: handleAIInteraction
\* returns (the retry loops are bounded and a cancelled request fails), and
\* a select with several cases ready takes each of them sooner or later,
\* the ctx.Done() case among them.
SpecStop ==
    /\ Init
    /\ [][Next]_vars
    /\ WF_vars(\E result \in FlushResults : FlushDone(result))
    /\ WF_vars(Exit)

(***************************************************************************)
(* The cursor tracker on its own: processNewMessages under the lock of     *)
(* lines 505-507, applied to any poll result of any source (entries in any *)
(* order, with or without repeated ids).                                   *)
(***************************************************************************)
RECURSIVE SeqsUpTo(_, _)
SeqsUpTo(S, n) ==
    IF n = 0 THEN {<<>>}
    ELSE LET shorter == SeqsUpTo(S, n - 1)
         IN shorter \cup {Append(q, x) : q \in shorter, x \in S}

PollResults == SeqsUpTo([id : 1..MaxSeqID], MaxPollLen)

PollSource(c, messages) ==
    /\ LET r == processNewMessages(c, messages, lastMessageIDs)
       IN /\ lastMessageIDs' = r.lastMessageIDs
          /\ admitted' = [admitted EXCEPT ![c] = @ \cup IdsOf(r.newMessages)]
          /\ poll' = [src |-> c, pre |-> lastMessageIDs[c], in |-> messages,
                      trace |-> r.trace, new |-> r.newMessages]
    /\ UNCHANGED loopVars
    /\ UNCHANGED sideVars

NextCursor == \E c \in Channels : \E messages \in PollResults :
                  PollSource(c, messages)

SpecCursor == Init /\ [][NextCursor]_vars

(***************************************************************************)
(* The classifier clients.  A variant is a concrete type behind AIClient:  *)
(* "chatgpt" (src/gemini.go:195-305), "claude" (src/claude.go:13-117),     *)
(* "gemini" (src/gemini.go:16-180), "glm" (src/glm.go), "openrouter"       *)
(* (src/openrouter.go), "claudeMain" (src/main.go:137-238) and             *)
(* "openrouterMain" (src/main.go:724-865).  A history entry is a role and  *)
(* the number of the append that added it.                                 *)
(***************************************************************************)
Variants == {"chatgpt", "claude", "gemini", "glm", "openrouter",
             "claudeMain", "openrouterMain"}

HistoryLimit(v) ==
    IF v = "claudeMain" THEN maxMessageHistoryMain ELSE maxMessageHistory

\* The bound of the for loop of SendMessage; one attempt where there is none.
AttemptCeiling(v) ==
    CASE v = "openrouter" -> maxRetries
      [] v = "openrouterMain" -> maxRetriesMain
      [] v = "claudeMain" -> maxRetriesClaudeMain
      [] OTHER -> 1

\* Mutation: the history is never trimmed.
AddMessageToHistoryKeepsAll(history, message, limit) == Append(history, message)

\* Mutation: the entry just appended is the one dropped.
AddMessageToHistoryDropsNewest(history, message, limit) ==
    IF Len(history) + 1 > limit THEN history ELSE Append(history, message)

\* append, then drop the first entry when the length is above the limit (the
\* for loop of src/main.go:144-146 drops one entry as well, the length being
\* at most the limit before the append).
AddMessageToHistory(history, message, limit) ==
    LET longer == Append(history, message)
    IN IF Len(longer) > limit THEN Tail(longer) ELSE longer

Entry(role) == [role |-> role, n |-> Len(appended) + 1]

(***************************************************************************)
(* What an attempt gets back: no response ("transportError"), a response   *)
(* with a status other than 200 and an error document as its body          *)
(* ("non2xx"), a body or a reply that is not the expected JSON             *)
(* ("parseError"), a JSON reply without the text field ("noText"), or a    *)
(* complete reply ("ok").                                                  *)
(***************************************************************************)
Replies ==
    [kind : {"transportError", "non2xx", "parseError"}, resp : {EmptyResponse}]
    \cup [kind : {"noText"},
          resp : {[r EXCEPT !.Text = ""] : r \in Responses}]
    \cup [kind : {"ok"}, resp : Responses]

\* validateAIResponse (src/main.go:335-337) is called by the clients of
\* src/main.go that are not the OpenRouter client.
Validates(v) == v = "claudeMain"

\* The error of the attempt, "" when the attempt succeeds.  A body that is an
\* error document fails in every variant: on the status check, on the error
\* field, or on the empty list of choices.
AttemptError(v, reply) ==
    CASE reply.kind \in {"transportError", "non2xx", "parseError"} -> reply.kind
      [] reply.kind = "noText" /\ Validates(v) -> "invalidFormat"
      [] OTHER -> ""

RECURSIVE Pow2(_)
Pow2(n) == IF n = 0 THEN 1 ELSE 2 * Pow2(n - 1)

\* Mutation: the delay grows by one base per retry.
SleepBeforeLinear(v, a) ==
    IF a > 0 /\ v \in {"openrouter", "openrouterMain"}
    THEN a * (IF v = "openrouter" THEN baseDelay ELSE baseDelayMain)
    ELSE 0

\* time.Sleep at the top of the loop body (src/openrouter.go:70-74).
SleepBefore(v, a) ==
    IF a > 0 /\ v \in {"openrouter", "openrouterMain"}
    THEN Pow2(a - 1) * (IF v = "openrouter" THEN baseDelay ELSE baseDelayMain)
    ELSE 0

\* time.Sleep after a failed attempt (src/main.go:186, 193, 199, 207, 215,
\* 232), the last attempt included.
SleepAfterFailure(v, a) == IF v = "claudeMain" THEN a + 1 ELSE 0

\* Mutation: the first error of the call is kept.
RecordErrorKeepsFirst(old, err) == IF old = "" THEN err ELSE old

\* lastError = ... / lastErr = ... in the failure branches.
RecordError(old, err) == err

\* Who appends the assistant entry: every variant on success but the Claude
\* client of src/main.go, which appends it after the loop has failed.
AppendsOnSuccess(v) == v # "claudeMain"

AppendsOnFailure(v) == v = "claudeMain"

Appending(role) ==
    /\ MessageHistory' = AddMessageToHistory(MessageHistory, Entry(role),
                                             HistoryLimit(clientType))
    /\ appended' = Append(appended, Entry(role))

LoopUnchanged ==
    UNCHANGED <<loopVars, lastMessageIDs, admitted, poll, config, auxVars>>

\* Mutation: handleAIInteraction is started without waiting for the one
\* before (go handleAIInteraction).
CanCallWhileInFlight == TRUE

\* The loop calls handleAIInteraction in its own goroutine and goes on when
\* it has returned: a call starts when none is in flight.
CanCall == sendPc \in {"idle", "relayed"}

\* handleAIInteraction calls SendMessage, which appends the user entry.
Call ==
    /\ CanCall
    /\ Len(appended) < HistoryLimit(clientType) + MaxOverflow
    /\ Appending("user")
    /\ sendPc' = "dispatch"
    /\ attempt' = 0
    /\ lastError' = ""
    /\ lastReply' = ""
    /\ slept' = 0
    /\ delays' = <<>>
    /\ sendResult' = NoResult
    /\ relay' = NoRelay
    /\ sends' = sends + 1
    /\ posts' = <<>>
    /\ UNCHANGED <<clientType, irregular, sentSystemMessage>>
    /\ LoopUnchanged

\* updateAIClientSystemMessage assigns the field of the types its switch
\* names: ClaudeClient, ChatGPTClient, DeepseekClient, OpenRouterClient and
\* GeminiClient.
UpdatesSystemMessage(v) == v # "glm"

\* c.SystemMessage as the request reads it.  The watcher assigns the field
\* from its own goroutine without synchronisation: a read that meets the
\* assignment gets the old value, the new one or a mix of both.
ReadSystemMessage ==
    IF updating /\ UpdatesSystemMessage(clientType)
    THEN {SystemMessage, systemMessageFile, TornSystemMessage}
    ELSE {SystemMessage}

\* One pass of the loop body (the whole body where there is no loop).  The
\* request carries ctx: once ctx is cancelled, HTTPClient.Do returns its
\* error.
Attempt(reply) ==
    /\ sendPc = "dispatch"
    /\ ctxDone => reply.kind = "transportError"
    /\ sentSystemMessage' \in ReadSystemMessage
    /\ LET err == AttemptError(clientType, reply)
           last == attempt + 1 >= AttemptCeiling(clientType)
       IN /\ delays' = Append(delays, slept + SleepBefore(clientType, attempt))
          /\ lastReply' = reply.kind
          /\ IF err = ""
             THEN /\ sendResult' = [ok |-> TRUE, err |-> "", resp |-> reply.resp]
                  /\ sendPc' = "returned"
                  /\ slept' = 0
                  /\ IF AppendsOnSuccess(clientType)
                     THEN Appending("assistant")
                     ELSE UNCHANGED <<MessageHistory, appended>>
                  /\ UNCHANGED <<attempt, lastError, irregular>>
             ELSE /\ lastError' = RecordError(lastError, err)
                  /\ slept' = SleepAfterFailure(clientType, attempt)
                  /\ IF last
                     THEN /\ irregular < MaxFailedSends
                          /\ irregular' = irregular + 1
                          /\ sendResult' = [ok |-> FALSE, err |-> lastError',
                                            resp |-> EmptyResponse]
                          /\ sendPc' = "returned"
                          /\ IF AppendsOnFailure(clientType)
                             THEN Appending("assistant")
                             ELSE UNCHANGED <<MessageHistory, appended>>
                          /\ UNCHANGED attempt
                     ELSE /\ attempt' = attempt + 1
                          /\ UNCHANGED <<sendPc, sendResult, irregular,
                                         MessageHistory, appended>>
    /\ UNCHANGED <<clientType, relay, sends, posts>>
    /\ LoopUnchanged

\* Mutation: a failed post is tried again.
AfterPostRetries(postFailed) == IF postFailed THEN "returned" ELSE "relayed"

\* The error of sendToTelegram is logged and handleAIInteraction returns nil.
AfterPost(postFailed) == "relayed"

\* handleAIInteraction after SendMessage has returned; sendToTelegram, when
\* it is called, fails or not.
Relay(postFailed) ==
    /\ sendPc = "returned"
    /\ relay' = RelayOf(config, sendResult)
    /\ IF relay'.send
       THEN /\ posts' = Append(posts, IF postFailed THEN "error" ELSE "ok")
            /\ sendPc' = AfterPost(postFailed)
       ELSE /\ ~postFailed
            /\ sendPc' = "relayed"
            /\ UNCHANGED posts
    /\ UNCHANGED <<clientType, MessageHistory, appended, attempt, lastError,
                   lastReply, slept, delays, sendResult, sends, irregular,
                   sentSystemMessage>>
    /\ LoopUnchanged

NextClient ==
    \/ Call
    \/ \E reply \in Replies : Attempt(reply)
    \/ \E postFailed \in BOOLEAN : Relay(postFailed)

ClientConfigs ==
    {[DefaultConfig EXCEPT !.EnableTelegramSend = e] : e \in BOOLEAN}

InitAnyClient ==
    /\ InitLoop
    /\ config \in ClientConfigs
    /\ clientType \in Variants
    /\ InitClient

SpecClient == InitAnyClient /\ [][NextClient]_vars

\* The same with the process interrupted at any moment of a call.
NextCancel ==
    \/ NextClient
    \/ Cancel

SpecCancel == InitAnyClient /\ [][NextCancel]_vars

(***************************************************************************)
(* The watcher of the preamble file: a write to the file makes the watcher *)
(* read it and call updateAIClientSystemMessage, at any moment of the      *)
(* client's life.                                                          *)
(***************************************************************************)
\* The file is written and the watcher has read it (readSystemMessage).
FileWritten ==
    /\ ~updating
    /\ systemMessageFile < MaxPreambles
    /\ systemMessageFile' = systemMessageFile + 1
    /\ updating' = TRUE
    /\ UNCHANGED <<SystemMessage, loopVars, lastMessageIDs, admitted, poll,
                   config, clientVars, lockVars, attachVars>>

updateAIClientSystemMessage ==
    /\ updating
    /\ SystemMessage' = IF UpdatesSystemMessage(clientType)
                        THEN systemMessageFile
                        ELSE SystemMessage
    /\ updating' = FALSE
    /\ UNCHANGED <<systemMessageFile, loopVars, lastMessageIDs, admitted,
                   poll, config, clientVars, lockVars, attachVars>>

NextPreamble ==
    \/ NextClient
    \/ FileWritten
    \/ updateAIClientSystemMessage

InitPreamble ==
    /\ InitLoop
    /\ config = DefaultConfig
    /\ clientType \in Variants
    /\ InitClient

SpecPreamble == InitPreamble /\ [][NextPreamble]_vars

\* The same for the variants of one attempt and one variant that retries;
\* the other two differ from it in the constants of the retry loop and in
\* the call that appends the assistant entry.
OwnerVariants == Variants \ {"claudeMain", "openrouter"}

InitOwner ==
    /\ InitLoop
    /\ config = DefaultConfig
    /\ clientType \in OwnerVariants
    /\ InitClient

SpecOwner == InitOwner /\ [][NextPreamble]_vars

(***************************************************************************)
(* The loop of monitorChannels, lock by lock: every step below ends where  *)
(* the code locks or unlocks mu or where a network call starts or returns. *)
(* A message is its id and whether it carries a photo; getMessages returns *)
(* the messages newest first.  Time is left out: the clock stands still   *)
(* and the timer case can run whenever the timer is set.                   *)
(***************************************************************************)
\* A message as getMessages returns it: its id, its text, and whether it
\* carries a photo and the download of the photo succeeds.
MaxTextLen == 1

\* A character is a letter, a blank, or one that cleanString removes.
Characters == {"a", " ", "emoji"}

Texts == SeqsUpTo(Characters, MaxTextLen)

Photos == {"none", "ok", "failed"}

\* What getMessages can return: up to limit of the messages, newest first.
PollResultsOf(msgs, limit) ==
    {m \in SeqsUpTo(msgs, limit) :
        \A i \in 1..Len(m) : \A j \in 1..Len(m) : i < j => m[i].id > m[j].id}

\* Messages with a text; those with an even id carry a photo.
LockMessages ==
    {[id |-> i, photo |-> IF i % 2 = 0 THEN "ok" ELSE "none", text |-> <<"a">>] :
        i \in 1..MaxSeqID}

LockPollResults == PollResultsOf(LockMessages, MaxPollLen)

\* One message at a time, with any text, with or without a photo.
MaxFilterID == 2

FilterMessages == [id : 1..MaxFilterID, photo : Photos, text : Texts]

FilterPollResults == PollResultsOf(FilterMessages, 1)

\* msg.GetDate() formatted as "15:04:05": digits and colons.  The messages
\* of a channel are dated in the order of their ids.
TimeStamp(id) == "15:04:0" \o ToString(id)

Whitespace == {" ", "\n"}

\* The regular expression of cleanString matches what is neither a letter,
\* a digit, whitespace nor one of the listed signs; the match is removed.
Allowed(ch) == ch # "emoji"

\* strings.Join(strings.Fields(cleaned), " "): the words, one blank between.
RECURSIVE JoinFields(_, _, _)
JoinFields(input, pending, out) ==
    IF input = <<>> THEN out
    ELSE IF Head(input) \in Whitespace
         THEN JoinFields(Tail(input), out # <<>>, out)
         ELSE JoinFields(Tail(input), FALSE,
                         out \o (IF pending THEN <<" ">> ELSE <<>>)
                             \o <<Head(input)>>)

cleanString(input) == JoinFields(SelectSeq(input, Allowed), FALSE, <<>>)

\* The Message processNewMessages builds (lines 810-836): the content is
\* the time and the text; the image, when its download succeeded, is named
\* here by the message it came with.
AsMessage(c, m) ==
    [src |-> c, id |-> m.id,
     Content |-> <<TimeStamp(m.id), "\n">> \o m.text,
     Images |-> IF m.photo = "ok" THEN <<[src |-> c, id |-> m.id]>>
                ELSE <<>>]

\* Line 525.
PassesFilter(msg) == Len(cleanString(msg.Content)) > 0 \/ Len(msg.Images) > 0

\* Lines 523-530: the messages that pass, with the channel in the content.
RECURSIVE CleanAndFilter(_, _)
CleanAndFilter(c, msgs) ==
    IF msgs = <<>> THEN <<>>
    ELSE LET msg == Head(msgs)
             rest == CleanAndFilter(c, Tail(msgs))
         IN IF PassesFilter(msg)
            THEN <<[msg EXCEPT !.Content = <<"Message from ", c, ":", "\n">>
                                               \o cleanString(msg.Content)]>>
                    \o rest
            ELSE rest

\* Mutation: each message is put before the ones merged so far.
RECURSIVE mergeMessagesNewestFirst(_)
mergeMessagesNewestFirst(msgs) ==
    IF msgs = <<>> THEN NoMessage
    ELSE LET rest == mergeMessagesNewestFirst(Tail(msgs))
         IN [Content |-> rest.Content
                           \o (IF Len(msgs) > 1 THEN <<"\n", "\n">> ELSE <<>>)
                           \o Head(msgs).Content,
             Images |-> rest.Images \o Head(msgs).Images]

RECURSIVE mergeMessages(_)
mergeMessages(msgs) ==
    IF msgs = <<>> THEN NoMessage
    ELSE LET rest == mergeMessages(Tail(msgs))
         IN [Content |-> Head(msgs).Content
                           \o (IF Len(msgs) > 1 THEN <<"\n", "\n">> ELSE <<>>)
                           \o rest.Content,
             Images |-> Head(msgs).Images \o rest.Images]

\* The new messages of a poll result, as Messages.
NewMessages(c, msgs, ids) ==
    LET new == processNewMessages(c, msgs, ids).newMessages
    IN [i \in 1..Len(new) |-> AsMessage(c, new[i])]

ItemOf(msg) == [src |-> msg.src, id |-> msg.id]

LockFrame(changed) ==
    /\ UNCHANGED <<now, ctxDone, pc, fetchTickerC, nextTick,
                   source, lastOp, windowStart, windowTicks,
                   flushAt, enqCount, flushCount, runtimeTimers, poll,
                   config, clientVars, preambleVars, attachVars>>
    /\ "cursor" \in changed \/ UNCHANGED <<lastMessageIDs, admitted>>
    /\ "buffer" \in changed
          \/ UNCHANGED <<messageBuffer, messagesToSend, batchTimer,
                         batchDeadline, mergedMessage>>
    /\ "fetch" \in changed
          \/ UNCHANGED <<channelIndex, gotMessages, newlyFetched>>

\* case <-fetchTicker.C: checkAirAttackStatus is called (an HTTP GET).
TickStart ==
    /\ step = "select"
    /\ step' = "gate"
    /\ io' = "checkAirAttackStatus"
    /\ UNCHANGED mu
    /\ LockFrame({})

GateReturns(gate) ==
    /\ step = "gate"
    /\ io' = "none"
    /\ IF GateSuppresses(gate)
       THEN /\ step' = "select"
            /\ UNCHANGED <<channelIndex, gotMessages, newlyFetched>>
       ELSE /\ step' = "channel"
            /\ channelIndex' = 1
            /\ gotMessages' = <<>>
            /\ newlyFetched' = <<>>
    /\ UNCHANGED mu
    /\ LockFrame({"fetch"})

\* getMessages is called for the next channel.
GetMessages ==
    /\ step = "channel"
    /\ channelIndex <= Len(ChannelOrder)
    /\ step' = "getMessages"
    /\ io' = "getMessages"
    /\ UNCHANGED mu
    /\ LockFrame({})

\* getMessages returns an error or the messages.
GetMessagesReturns(failed, result) ==
    /\ step = "getMessages"
    /\ io' = "none"
    /\ IF failed
       THEN /\ result = <<>>
            /\ step' = "channel"
            /\ channelIndex' = channelIndex + 1
            /\ UNCHANGED <<gotMessages, newlyFetched>>
       ELSE /\ step' = "lock"
            /\ gotMessages' = result
            /\ UNCHANGED <<channelIndex, newlyFetched>>
    /\ UNCHANGED mu
    /\ LockFrame({"fetch"})

\* The new messages of the poll result that carry a photo.
PhotosToDownload(channelID, msgs, ids) ==
    LET new == processNewMessages(channelID, msgs, ids).newMessages
    IN {i \in 1..Len(new) : new[i].photo # "none"}

\* mu.Lock(); processNewMessages starts: for a new message with a photo it
\* calls downloadImageWithRetry.
LockAndProcess ==
    /\ step = "lock"
    /\ ~mu
    /\ mu' = TRUE
    /\ step' = "processNewMessages"
    /\ io' = IF PhotosToDownload(ChannelOrder[channelIndex], gotMessages,
                                 lastMessageIDs) # {}
             THEN "downloadImageWithRetry"
             ELSE "none"
    /\ LockFrame({})

\* processNewMessages returns; mu.Unlock(); the new messages that pass the
\* filter are collected.
ProcessedAndUnlock ==
    /\ step = "processNewMessages"
    /\ LET c == ChannelOrder[channelIndex]
           r == processNewMessages(c, gotMessages, lastMessageIDs)
       IN /\ lastMessageIDs' = r.lastMessageIDs
          /\ admitted' = [admitted EXCEPT ![c] = @ \cup IdsOf(r.newMessages)]
          /\ newlyFetched' =
                newlyFetched
                   \o CleanAndFilter(c, NewMessages(c, gotMessages,
                                                    lastMessageIDs))
    /\ io' = "none"
    /\ mu' = FALSE
    /\ step' = "channel"
    /\ channelIndex' = channelIndex + 1
    /\ gotMessages' = <<>>
    /\ LockFrame({"cursor", "fetch"})

\* After the last channel: nothing new, or mu.Lock() for the enqueue.
ChannelsDone ==
    /\ step = "channel"
    /\ channelIndex > Len(ChannelOrder)
    /\ IF Enqueues(newlyFetched)
       THEN /\ ~mu
            /\ mu' = TRUE
            /\ step' = "enqueue"
       ELSE /\ step' = "select"
            /\ UNCHANGED mu
    /\ UNCHANGED io
    /\ LockFrame({})

\* Lines 537-570: the buffer is extended, the timer started or extended;
\* mu.Unlock().
EnqueueAndUnlock ==
    /\ step = "enqueue"
    /\ messageBuffer' = messageBuffer \o newlyFetched
    /\ batchDeadline' = StartOrExtend(now).batchDeadline
    /\ batchTimer' = StartOrExtend(now).batchTimer
    /\ newlyFetched' = <<>>
    /\ mu' = FALSE
    /\ step' = "select"
    /\ UNCHANGED <<io, messagesToSend, mergedMessage, channelIndex,
                   gotMessages>>
    /\ LockFrame({"buffer", "fetch"})

\* case <-batchTimerChan: the timer has fired; mu.Lock().
TimerLock ==
    /\ step = "select"
    /\ batchTimer.set
    /\ ~mu
    /\ mu' = TRUE
    /\ step' = "take"
    /\ UNCHANGED io
    /\ LockFrame({})

\* The buffer is copied and cleared and the timer reset; mu.Unlock(); the
\* messages are merged, handleAIInteraction cleans the content and calls
\* SendMessage.
TakeAndUnlock ==
    /\ step = "take"
    /\ batchTimer' = ResetTimer
    /\ batchDeadline' = ZeroTime
    /\ mu' = FALSE
    /\ IF Len(messageBuffer) = 0
       THEN /\ step' = "select"
            /\ UNCHANGED <<io, messageBuffer, messagesToSend, mergedMessage>>
       ELSE /\ messagesToSend' = TakeBuffer(messageBuffer).messagesToSend
            /\ messageBuffer' = TakeBuffer(messageBuffer).messageBuffer
            /\ mergedMessage' =
                  [mergeMessages(messagesToSend') EXCEPT
                      !.Content = cleanString(@)]
            /\ step' = "SendMessage"
            /\ io' = "SendMessage"
    /\ LockFrame({"buffer"})

\* SendMessage returns: an error ends the case, a result with a changed
\* status is posted.
SendMessageReturns(result) ==
    /\ step = "SendMessage"
    /\ IF RelayOf(config, result).send
       THEN /\ step' = "sendToTelegram"
            /\ io' = "sendToTelegram"
            /\ UNCHANGED <<messagesToSend, mergedMessage>>
       ELSE /\ step' = "select"
            /\ io' = "none"
            /\ messagesToSend' = <<>>
            /\ mergedMessage' = NoMessage
    /\ UNCHANGED <<mu, messageBuffer, batchTimer, batchDeadline>>
    /\ LockFrame({"buffer"})

SendToTelegramReturns ==
    /\ step = "sendToTelegram"
    /\ step' = "select"
    /\ io' = "none"
    /\ messagesToSend' = <<>>
    /\ mergedMessage' = NoMessage
    /\ UNCHANGED <<mu, messageBuffer, batchTimer, batchDeadline>>
    /\ LockFrame({"buffer"})

NextLockWith(results) ==
    \/ TickStart
    \/ \E gate \in GateOutcomes : GateReturns(gate)
    \/ GetMessages
    \/ \E failed \in BOOLEAN : \E result \in results :
          GetMessagesReturns(failed, result)
    \/ LockAndProcess
    \/ ProcessedAndUnlock
    \/ ChannelsDone
    \/ EnqueueAndUnlock
    \/ TimerLock
    \/ TakeAndUnlock
    \/ \E result \in FlushResults : SendMessageReturns(result)
    \/ SendToTelegramReturns

NextLock == NextLockWith(LockPollResults)

SpecLock == Init /\ [][NextLock]_vars

\* The same loop fed with single messages of any text.
NextFilter == NextLockWith(FilterPollResults)

SpecFilter == Init /\ [][NextFilter]_vars

(***************************************************************************)
(* The request body.  An Image is its MIMEType (the bytes are encoded the  *)
(* same way by every variant); a Message is its Content and its Images.    *)
(* A request entry is its role, its text when "content" is a string, and   *)
(* its parts when "content" is a list.  The entry for the system message,  *)
(* which some variants put first, is text and is left out.                 *)
(***************************************************************************)
MaxImages == 2
MaxEntries == 2

MIMETypes == {"image/jpeg", "image/png"}

ImageMessages ==
    [Role : {"user"}, Content : {"", "text"},
     Images : SeqsUpTo(MIMETypes, MaxImages)]

\* Embedding with the first image only.
ImagePartsFirstOnly(kind, images) ==
    IF Len(images) = 0 THEN <<>>
    ELSE <<[type |-> kind, mime |-> images[1]]>>

\* for _, img := range msg.Images: one part per image, MIMEType kept in
\* "media_type" or in the data URL.
ImageParts(kind, images) ==
    [i \in 1..Len(images) |-> [type |-> kind, mime |-> images[i]]]

TextParts(content) ==
    IF content # "" THEN <<[type |-> "text", mime |-> content]>> ELSE <<>>

TextEntry(msg) == [role |-> msg.Role, text |-> msg.Content, parts |-> <<>>]

\* The variants whose SendMessage takes the message as a string: the entry
\* added to the history has no Images.
TakesString(v) == v \in {"gemini", "openrouter", "claudeMain"}

AsHistoryEntry(v, msg) ==
    IF TakesString(v) THEN [msg EXCEPT !.Images = <<>>] ELSE msg

\* The entry of the request body for one history entry.
ApiMessage(v, codingPlan, msg) ==
    CASE v = "claude" ->
           IF Len(msg.Images) > 0
           THEN [role |-> msg.Role, text |-> "",
                 parts |-> ImageParts("image", msg.Images)
                              \o TextParts(msg.Content)]
           ELSE TextEntry(msg)
      [] v \in {"chatgpt", "openrouterMain"} ->
           IF Len(msg.Images) > 0
           THEN [role |-> msg.Role, text |-> "",
                 parts |-> TextParts(msg.Content)
                              \o ImageParts("image_url", msg.Images)]
           ELSE TextEntry(msg)
      [] v = "glm" ->
           IF ~codingPlan /\ Len(msg.Images) > 0
           THEN [role |-> msg.Role, text |-> "",
                 parts |-> TextParts(msg.Content)
                              \o ImageParts("image_url", msg.Images)]
           ELSE TextEntry(msg)
      [] OTHER -> TextEntry(msg)

ApiMessages(v, codingPlan, history) ==
    [i \in 1..Len(history) |-> ApiMessage(v, codingPlan, history[i])]

\* SendMessage up to the request: the message is added to the history and
\* the body is built from the whole history.
BuildRequest(message) ==
    /\ Len(imageHistory) < MaxEntries
    /\ imageHistory' = Append(imageHistory, AsHistoryEntry(clientType, message))
    /\ apiMessages' = ApiMessages(clientType, UseCodingPlan, imageHistory')
    /\ UNCHANGED <<UseCodingPlan, loopVars, lastMessageIDs, admitted, poll,
                   config, clientVars, preambleVars, lockVars>>

\* A client of any variant; a GLMClient with either value of the field.
InitAttach ==
    /\ InitLoopVars
    /\ InitAux
    /\ UseCodingPlan \in BOOLEAN
    /\ config = DefaultConfig
    /\ clientType \in Variants
    /\ InitClient

NextAttach == \E message \in ImageMessages : BuildRequest(message)

SpecAttach == InitAttach /\ [][NextAttach]_vars

(***************************************************************************)
(* A burst that does not end: the loop of monitorChannels with a new       *)
(* message available at any tick, under any of the configurations below.   *)
(* The loop only compares times with each other, so here every time is     *)
(* kept relative to the present (now stays 0 and the other times are       *)
(* shifted as time passes); the buffer records the first MaxPosts messages *)
(* of a window, and handleAIInteraction returns at once.                   *)
(***************************************************************************)
BurstConfigs ==
    {[DefaultConfig EXCEPT !.AIBatchExtendDuration = e] :
        e \in {DefaultAIBatchExtendDuration, UpdateInterval}}

InitBurst ==
    /\ InitLoop
    /\ config \in BurstConfigs
    /\ clientType = "chatgpt"
    /\ InitClient

\* The time t as seen d seconds later.
Shift(t, d) == t - d

burstVars == <<fetchTickerC, nextTick, batchTimer, batchDeadline,
               messageBuffer, lastOp>>

BurstUnchanged ==
    UNCHANGED <<now, ctxDone, pc, lastMessageIDs, messagesToSend, source,
                windowStart, windowTicks, flushAt, enqCount, flushCount,
                admitted, poll, runtimeTimers, sideVars>>

\* The select blocks until the first of the ticker and the timer fires.
BurstWait ==
    /\ pc = "select"
    /\ ~SomethingReady
    /\ LET d == IF batchTimer.set THEN Min(nextTick, batchTimer.fireAt)
                ELSE nextTick
       IN /\ fetchTickerC' = TickerAfter(d).c
          /\ nextTick' = Shift(TickerAfter(d).next, d)
          /\ batchTimer' = IF batchTimer.set
                           THEN [batchTimer EXCEPT !.fireAt = Shift(@, d)]
                           ELSE batchTimer
          /\ batchDeadline' = IF batchTimer.set THEN Shift(batchDeadline, d)
                              ELSE batchDeadline
    /\ lastOp' = "wait"
    /\ UNCHANGED messageBuffer
    /\ BurstUnchanged

\* case <-fetchTicker.C with or without a new message (lines 535-571).
BurstTick(arrived) ==
    /\ pc = "select"
    /\ TickReady
    /\ fetchTickerC' = FALSE
    /\ IF arrived
       THEN /\ messageBuffer' =
                  IF Len(messageBuffer) < MaxPosts
                  THEN Append(messageBuffer,
                              [src |-> ChannelOrder[1],
                               id |-> Len(messageBuffer) + 1])
                  ELSE messageBuffer
            /\ batchDeadline' = StartOrExtend(now).batchDeadline
            /\ batchTimer' = StartOrExtend(now).batchTimer
            /\ lastOp' = IF batchTimer.set THEN "enqueueOpen"
                         ELSE "enqueueIdle"
       ELSE /\ lastOp' = "fetchNothing"
            /\ UNCHANGED <<messageBuffer, batchDeadline, batchTimer>>
    /\ UNCHANGED nextTick
    /\ BurstUnchanged

\* case <-batchTimerChan (lines 573-609).
BurstFire ==
    /\ pc = "select"
    /\ TimerReady
    /\ messageBuffer' = TakeBuffer(messageBuffer).messageBuffer
    /\ batchTimer' = ResetTimer
    /\ batchDeadline' = ZeroTime
    /\ lastOp' = IF Len(messageBuffer) = 0 THEN "emptyFire" ELSE "flushStart"
    /\ UNCHANGED <<fetchTickerC, nextTick>>
    /\ BurstUnchanged

NextBurst ==
    \/ BurstWait
    \/ \E arrived \in BOOLEAN : BurstTick(arrived)
    \/ BurstFire

\* The loop is a running goroutine and the clock advances.
SpecBurst ==
    /\ InitBurst
    /\ [][NextBurst]_vars
    /\ WF_vars(BurstWait)
    /\ WF_vars(\E arrived \in BOOLEAN : BurstTick(arrived))
    /\ WF_vars(BurstFire)

(***************************************************************************)
(* Properties.                                                             *)
(***************************************************************************)
Occ(q, x) == Cardinality({i \in 1..Len(q) : q[i] = x})

ItemSet(q) == {q[i] : i \in 1..Len(q)}

\* C1: every item appended to the buffer is, in every state, either still in
\* the buffer (once) or in exactly one batch handed to the flush, never in
\* none and never in two; and a non-empty buffer at the select always has
\* the timer armed, so that its items are flushed.  This covers the tick and
\* the deadline being ready at the same select.
C1_EveryItemInExactlyOneBatch ==
    /\ \A it \in Items :
          /\ enqCount[it] = Occ(messageBuffer, it) + flushCount[it]
          /\ flushCount[it] <= 1
          /\ Occ(messageBuffer, it) <= 1
    /\ (pc = "select" /\ messageBuffer # <<>>) => batchTimer.set
    /\ pc = "flush" => messageBuffer = <<>>

\* An enqueue made when the deadline had already been reached (both the
\* tick and the timer were ready and the tick was taken first).
C1_Witness ==
    /\ lastOp = "enqueueOpen"
    /\ batchDeadline - AIBatchExtendDuration <= now
    /\ Len(messageBuffer) >= 2
    /\ \A i \in 1..Len(messageBuffer) : enqCount[messageBuffer[i]] = 1

\* The other order of the same race: the deadline was taken first, the batch
\* is flushed, and the tick of the same instant opens a new window.
C1_WitnessNewWindow ==
    /\ lastOp = "enqueueIdle"
    /\ \E it \in Items : flushCount[it] = 1 /\ enqCount[it] = 1
    /\ now = windowStart
    /\ now % UpdateInterval = 0
    /\ now >= UpdateInterval + AIBatchInterval

FetchAny ==
    \E failed \in SUBSET Channels : \E d \in 0..MaxFetchTime :
        FetchTick(failed, d)

\* C2: while handleAIInteraction is running (pc = "flush"), a poll tick that
\* is waiting in fetchTicker.C can be processed by the loop.
C2_FlushNeverStallsPolling ==
    (pc = "flush" /\ fetchTickerC) => ENABLED FetchAny

\* C3: every entry of a poll result is accepted if and only if its id is
\* strictly greater than the watermark stored for the source at that moment.
C3_AdmitIffAboveStored ==
    \A i \in 1..Len(poll.trace) :
        poll.trace[i].accepted <=> poll.trace[i].id > poll.trace[i].stored

\* What holds of C3: for a poll result delivered newest first with strictly
\* descending ids, acceptance is by the stored watermark, an accepted entry
\* raises it to its id, and a rejected one leaves it.
Descending(msgs) ==
    \A i \in 1..Len(msgs) : \A j \in 1..Len(msgs) :
        i < j => msgs[i].id > msgs[j].id

C3_NewestFirstAdmitIffAboveStored ==
    Descending(poll.in) =>
        /\ \A i \in 1..Len(poll.trace) :
              poll.trace[i].accepted <=>
                  poll.trace[i].id > poll.trace[i].stored
        /\ \A i \in 1..Len(poll.trace) :
              LET after == IF i < Len(poll.trace)
                           THEN poll.trace[i + 1].stored
                           ELSE lastMessageIDs[poll.src]
              IN after = IF poll.trace[i].accepted THEN poll.trace[i].id
                         ELSE poll.trace[i].stored

\* C4: the stored watermark of every source is the greatest id admitted so
\* far for it (0 when none), and no step lowers a watermark.
C4_WatermarkIsMaxAdmitted ==
    /\ [](\A c \in Channels : lastMessageIDs[c] = SetMax(admitted[c]))
    /\ [][\A c \in Channels : lastMessageIDs'[c] >= lastMessageIDs[c]]_vars

\* A poll of a source with a raised watermark, in an order other than newest
\* first, that admitted two ids and left the watermark at the greater one.
C4_Witness ==
    /\ poll.src \in Channels
    /\ poll.pre > 0
    /\ Len(poll.new) = 2
    /\ poll.new[1].id > poll.new[2].id
    /\ lastMessageIDs[poll.src] = poll.new[1].id

TickOps == {"gateSkip", "fetchNothing", "fetchError", "enqueueIdle",
            "enqueueOpen"}

\* C5: a tick whose poll results hold only ids at or below the stored
\* watermark of their source admits nothing and leaves the cursor, the
\* buffer, the timer and the deadline as they were; per source, such a
\* result admits nothing for that source and leaves its cursor.
C5_RedeliveryIsIdempotent ==
    [][(pc = "select" /\ fetchTickerC /\ lastOp' \in TickOps) =>
          /\ \A c \in Channels :
                (\A i \in 1..Len(source[c]) :
                     source[c][i].id <= lastMessageIDs[c]) =>
                   /\ lastMessageIDs'[c] = lastMessageIDs[c]
                   /\ admitted'[c] = admitted[c]
                   /\ \A it \in Items :
                         it.src = c => enqCount'[it] = enqCount[it]
          /\ (\A c \in Channels : \A i \in 1..Len(source[c]) :
                  source[c][i].id <= lastMessageIDs[c]) =>
                UNCHANGED <<lastMessageIDs, messageBuffer, batchTimer,
                            batchDeadline, admitted, enqCount>>]_vars

\* Every source was polled without error, each returned an id equal to its
\* raised watermark, and nothing was admitted.
C5_Witness ==
    /\ lastOp = "fetchNothing"
    /\ \A c \in Channels :
          /\ source[c] # <<>>
          /\ lastMessageIDs[c] = source[c][1].id
          /\ lastMessageIDs[c] \in admitted[c]

\* C6: the step that starts a flush hands over the whole buffer, empties
\* it, disarms the timer and zeroes the deadline, all in that one step; no
\* item is handed over twice; during and after the flush the timer stays
\* disarmed and the buffer empty until a step appends an item.
C6_FlushIsAtomicAndOnce ==
    /\ [][(pc = "select" /\ pc' = "flush") =>
             /\ messageBuffer # <<>>
             /\ messagesToSend' = messageBuffer
             /\ messageBuffer' = <<>>
             /\ batchTimer' = NilTimer
             /\ batchDeadline' = ZeroTime]_vars
    /\ [][(~batchTimer.set /\ batchTimer'.set) =>
             Len(messageBuffer') > Len(messageBuffer)]_vars
    /\ [](\A it \in Items : flushCount[it] <= 1)
    /\ [](pc = "flush" => messageBuffer = <<>> /\ ~batchTimer.set)

\* A batch of two items has just been taken: buffer empty, timer disarmed.
C6_Witness ==
    /\ lastOp = "flushStart"
    /\ Len(messagesToSend) = 2
    /\ messageBuffer = <<>>
    /\ batchTimer = NilTimer
    /\ batchDeadline = ZeroTime

\* The items a fetch step admits: for every source whose cursor the step
\* raised, the returned messages above the cursor it had before the step.
NewItems ==
    {[src |-> c, id |-> source[c][i].id] :
        c \in {x \in Channels : lastMessageIDs'[x] # lastMessageIDs[x]},
        i \in 1..MessageLimit}
    \cap {it \in Items : it.src \in Channels /\
             \E i \in 1..Len(source[it.src]) :
                 source[it.src][i].id = it.id /\
                 it.id > lastMessageIDs[it.src]}

\* C7: an enqueue into the Idle scheduler (empty buffer, no timer) leaves
\* the buffer holding exactly the newly admitted items, the deadline at
\* now + AIBatchInterval and the timer armed to fire at that deadline.
C7_EnqueueInIdle ==
    [][(messageBuffer = <<>> /\ ~batchTimer.set /\ messageBuffer' # <<>>) =>
          /\ ItemSet(messageBuffer') = NewItems
          /\ Len(messageBuffer') = Cardinality(NewItems)
          /\ batchDeadline' = now' + AIBatchInterval
          /\ batchTimer'.set
          /\ batchTimer'.fireAt = batchDeadline'
          /\ batchDeadline' >= now + AIBatchInterval]_vars

\* Two sources delivered a new message in the tick that opened the window.
C7_Witness ==
    /\ lastOp = "enqueueIdle"
    /\ Len(messageBuffer) = 2
    /\ batchTimer.set
    /\ batchDeadline = now + AIBatchInterval

\* C8: an enqueue while the timer is armed keeps the buffered items in
\* place, appends the new ones after them, and moves the deadline to the
\* previous deadline + AIBatchExtendDuration (whatever the current time),
\* with the timer re-armed to fire at the new deadline.
C8_EnqueueInOpen ==
    [][(batchTimer.set /\ messageBuffer' # messageBuffer
            /\ Len(messageBuffer') > 0) =>
          /\ Len(messageBuffer') > Len(messageBuffer)
          /\ SubSeq(messageBuffer', 1, Len(messageBuffer)) = messageBuffer
          /\ ItemSet(SubSeq(messageBuffer', Len(messageBuffer) + 1,
                            Len(messageBuffer'))) = NewItems
          /\ batchDeadline' = batchDeadline + AIBatchExtendDuration
          /\ batchTimer'.set
          /\ batchTimer'.fireAt = batchDeadline']_vars

\* A window extended by a second tick, at a time when deadline + extension
\* differs from now + extension and from now + interval.
C8_Witness ==
    /\ lastOp = "enqueueOpen"
    /\ windowTicks = 2
    /\ Len(messageBuffer) = 2
    /\ batchDeadline = windowStart + AIBatchInterval + AIBatchExtendDuration
    /\ batchDeadline # now + AIBatchExtendDuration
    /\ batchDeadline # now + AIBatchInterval

\* C9: a batch of N items is taken at AIBatchInterval + (N - 1) *
\* AIBatchExtendDuration after the first enqueue of its window (and no more
\* than the time of a tick handler later), however the items are spread
\* over poll ticks.
C9_FlushAtBasePlusPerItemExtension ==
    pc = "flush" =>
        LET due == windowStart + AIBatchInterval +
                       (Len(messagesToSend) - 1) * AIBatchExtendDuration
        IN flushAt >= due /\ flushAt <= due + MaxFetchTime

\* What holds of C9: all items enqueued in a window are in its one batch,
\* taken at AIBatchInterval + (K - 1) * AIBatchExtendDuration after the first
\* enqueue, K being the number of poll ticks that enqueued into the window.
C9_FlushAtBasePlusPerTickExtension ==
    pc = "flush" =>
        /\ LET due == windowStart + AIBatchInterval +
                          (windowTicks - 1) * AIBatchExtendDuration
           IN flushAt >= due /\ flushAt <= due + MaxFetchTime
        /\ Len(messagesToSend) >= windowTicks
        /\ \A i \in 1..Len(messagesToSend) :
               flushCount[messagesToSend[i]] = 1

\* C10: a batch of a single item is taken no earlier than AIBatchInterval
\* after the item's enqueue and no later than AIBatchInterval + MaxFetchTime
\* after it (the delay is the time of a tick handler that was running when
\* the timer fired).  This holds also for a window opened after a slow flush.
C10_SingleItemFlushesAtBaseWindow ==
    (pc = "flush" /\ Len(messagesToSend) = 1) =>
        /\ flushAt >= windowStart + AIBatchInterval
        /\ flushAt <= windowStart + AIBatchInterval + MaxFetchTime
        /\ windowTicks = 1

\* A single item enqueued by a tick that had waited for a slow flush to
\* return (the window opened further off the ticker's grid than a tick
\* handler takes), flushed one interval after its enqueue.
C10_Witness ==
    /\ pc = "flush"
    /\ Len(messagesToSend) = 1
    /\ windowStart % UpdateInterval > MaxFetchTime
    /\ windowStart > AIBatchInterval
    /\ flushAt >= windowStart + AIBatchInterval
    /\ \E it \in Items : flushCount[it] = 1 /\ Occ(messagesToSend, it) = 0


\* C11: once a window is open (the batch timer is set), its batch is
\* eventually taken, also when a new message arrives at every tick, under
\* every configuration.
C11_OpenWindowEventuallyFlushes ==
    [](batchTimer.set => <>(lastOp = "flushStart"))

\* The same under the default configuration only (the extension is shorter
\* than the poll interval).
C11_DefaultWindowEventuallyFlushes ==
    []((batchTimer.set /\ config = DefaultConfig) => <>(lastOp = "flushStart"))


(***************************************************************************)
(* The classifier clients (SpecClient).                                    *)
(***************************************************************************)
Returned == sendPc \in {"returned", "relayed"}

LastAppended == appended[Len(appended)]

\* C12: in every variant the history is never longer than the configured
\* maximum, after any number of calls of SendMessage, successful or failed
\* (all appends are calls of AddMessageToHistory), and an append to a full
\* history drops the oldest entry and nothing else.
C12_HistoryBoundedOldestEvicted ==
    /\ [](Len(MessageHistory) <= HistoryLimit(clientType))
    /\ [][(Len(appended') = Len(appended) + 1
           /\ Len(MessageHistory) = HistoryLimit(clientType))
          => MessageHistory' = Append(Tail(MessageHistory),
                                      appended'[Len(appended')])]_vars

\* A full history that has lost entries, after a failed call.
C12_Witness ==
    /\ Len(appended) > HistoryLimit(clientType)
    /\ Len(MessageHistory) = HistoryLimit(clientType)
    /\ irregular > 0
    /\ clientType = "glm"

Kept == Min(Len(appended), HistoryLimit(clientType))

\* C13: the history is exactly the latest entries (at most the maximum), in
\* the order of their appends, of all entries ever appended: nothing is
\* reordered, rewritten or removed out of order, whatever the roles.
C13_HistoryIsLatestSuffix ==
    MessageHistory = SubSeq(appended, Len(appended) - Kept + 1, Len(appended))

\* Entries of both roles have been evicted.
C13_Witness ==
    /\ Len(appended) >= HistoryLimit(clientType) + 2
    /\ \E i, j \in 1..(Len(appended) - Kept) :
          appended[i].role = "user" /\ appended[j].role = "assistant"
    /\ MessageHistory[1] = appended[Len(appended) - Kept + 1]


CallStep == sendPc \in {"idle", "relayed"} /\ sendPc' = "dispatch"

ReturnStep == sendPc = "dispatch" /\ sendPc' = "returned"

\* An attempt has been dispatched and has got its reply.
AttemptStep == sendPc = "dispatch" /\ Len(delays') = Len(delays) + 1

\* What a return of SendMessage has to do to the history under C14.
ReturnKeepsContract ==
    IF sendResult'.ok
    THEN /\ appended' = Append(appended, [role |-> "assistant",
                                          n |-> Len(appended) + 1])
         /\ MessageHistory'[Len(MessageHistory')] = LastAppended'
    ELSE /\ appended' = appended
         /\ MessageHistory' = MessageHistory

\* C14: in every variant SendMessage appends the entry as a user entry
\* before the first dispatch; a successful return appends one assistant
\* entry after it; a failed return appends nothing and keeps the user entry.
C14_SendAppendsUserThenAssistantOnSuccess ==
    [][/\ CallStep =>
            /\ appended' = Append(appended, [role |-> "user",
                                             n |-> Len(appended) + 1])
            /\ MessageHistory'[Len(MessageHistory')] = LastAppended'
       /\ ReturnStep => ReturnKeepsContract]_vars

\* The same with the Claude client of src/main.go left out.
C14_HoldsButForClaudeMain ==
    [][(ReturnStep /\ clientType # "claudeMain") => ReturnKeepsContract]_vars

FailureKinds == {"transportError", "non2xx", "parseError"}

\* C15: an attempt whose reply is not well-formed JSON or lacks the text is
\* never the successful return of SendMessage: it is followed by another
\* attempt or, at the ceiling, by the return of an error.
C15_MalformedReplyNeverSucceeds ==
    [][(AttemptStep /\ lastReply' \in {"parseError", "noText"})
       => \/ sendPc' = "dispatch" /\ attempt' = attempt + 1
          \/ sendPc' = "returned" /\ ~sendResult'.ok]_vars

\* The same for the reply that is not well-formed JSON alone.
C15_UnparsableReplyNeverSucceeds ==
    [][(AttemptStep /\ lastReply' = "parseError")
       => \/ sendPc' = "dispatch" /\ attempt' = attempt + 1
          \/ sendPc' = "returned" /\ ~sendResult'.ok]_vars

\* C16: in every variant a transport error, a status other than 2xx or a
\* parsing error on the first attempt (below the ceiling, which the contract
\* puts at 3 to 30) is followed by a second attempt of the same call, not by
\* the return of an error.
C16_FirstFailureIsRetried ==
    [][(AttemptStep /\ attempt = 0 /\ lastReply' \in FailureKinds)
       => (sendPc' = "dispatch" /\ attempt' = 1)]_vars

\* The same for the variants that have a retry loop, at every attempt below
\* their ceiling.
C16_LoopVariantsRetryBelowCeiling ==
    [][(AttemptStep
        /\ lastReply' \in FailureKinds
        /\ AttemptCeiling(clientType) > 1
        /\ attempt + 1 < AttemptCeiling(clientType))
       => (sendPc' = "dispatch" /\ attempt' = attempt + 1)]_vars

ErrorOfReply(kind) == IF kind = "noText" THEN "invalidFormat" ELSE kind

\* C17: a call dispatches at most AttemptCeiling attempts; an error is
\* returned only after that many failed attempts and carries the failure of
\* the last one; a result is returned only from an attempt that succeeded.
C17_CeilingAndLastFailure ==
    /\ Len(delays) <= AttemptCeiling(clientType)
    /\ (Returned /\ ~sendResult.ok) =>
          /\ Len(delays) = AttemptCeiling(clientType)
          /\ sendResult.err = ErrorOfReply(lastReply)
          /\ sendResult.err # ""
    /\ (Returned /\ sendResult.ok) =>
          /\ AttemptError(clientType, [kind |-> lastReply,
                                       resp |-> sendResult.resp]) = ""
          /\ sendResult.err = ""

\* Thirty failed attempts of one call, the last one on the transport.
C17_Witness ==
    /\ clientType = "openrouter"
    /\ Returned
    /\ ~sendResult.ok
    /\ Len(delays) = maxRetries
    /\ sendResult.err = "transportError"

\* The base of the delays: baseDelay, or the time.Second of src/main.go:186.
RetryBase(v) ==
    CASE v = "openrouter" -> baseDelay
      [] v = "openrouterMain" -> baseDelayMain
      [] OTHER -> 1

\* 10^9 < 2^30 nanoseconds in a second; a time.Duration has 63 value bits.
NanosecondBits == 30

DurationBits == 63

RECURSIVE Log2Ceil(_)
Log2Ceil(n) == IF n <= 1 THEN 0 ELSE 1 + Log2Ceil((n + 1) \div 2)

\* C18: in a variant with a retry loop nothing is slept before the first
\* attempt, and base * 2^(k-2) before attempt k >= 2, up to the ceiling; the
\* duration stays below 2^63 nanoseconds.  (Every entry of delays was its
\* last entry in the state after its attempt was dispatched.)
C18_BackoffDoubles ==
    (AttemptCeiling(clientType) > 1 /\ Len(delays) > 0) =>
        LET k == Len(delays)
        IN /\ k = 1 => delays[k] = 0
           /\ k >= 2 => delays[k] = RetryBase(clientType) * Pow2(k - 2)
           /\ Log2Ceil(delays[k] + 1) + NanosecondBits < DurationBits

\* The last attempt of the longest loop has been dispatched.
C18_Witness ==
    /\ clientType = "openrouter"
    /\ Len(delays) = maxRetries
    /\ delays[maxRetries] = Pow2(maxRetries - 2)


(***************************************************************************)
(* The relay decision of handleAIInteraction.                              *)
(***************************************************************************)
Decided == sendPc = "relayed" /\ sendResult.ok

\* C19: the relay decision depends on the result alone: without
\* StatusChanged nothing is posted; with StatusChanged and Danger a post is
\* made with silent = false; with StatusChanged and without Danger a post
\* is made with silent = true.
C19_RelayFollowsResultAlone ==
    Decided =>
        /\ relay.send = sendResult.resp.StatusChanged
        /\ relay.send => relay.silent = ~sendResult.resp.Danger

\* C19 as the code has it: the decision is the claim's when
\* EnableTelegramSend is on, and nothing is posted when it is off.
C19_RelayFollowsResultWhenEnabled ==
    Decided =>
        /\ relay.send = (config.EnableTelegramSend
                         /\ sendResult.resp.StatusChanged)
        /\ relay.send => relay.silent = ~sendResult.resp.Danger

\* A changed, dangerous state has been posted aloud.
C19_Witness ==
    /\ Decided
    /\ sendResult.resp.StatusChanged
    /\ sendResult.resp.Danger
    /\ relay.send
    /\ ~relay.silent

\* C20: the body of a post is the indicator, a space and the text of the
\* result as it came; the indicator is the danger one exactly when Danger
\* is set, and the two indicators differ.
C20_BodyIsGlyphThenText ==
    (Decided /\ relay.send) =>
        /\ relay.body = <<relay.body[1], " ", sendResult.resp.Text>>
        /\ relay.body[1] \in {DangerEmoji, SafeEmoji}
        /\ (relay.body[1] = DangerEmoji) = sendResult.resp.Danger
        /\ DangerEmoji # SafeEmoji

\* A post of a safe state.
C20_Witness ==
    /\ Decided
    /\ relay.send
    /\ ~sendResult.resp.Danger
    /\ relay.body = <<SafeEmoji, " ", "verdict">>


(***************************************************************************)
(* The batch timer (Spec).                                                 *)
(***************************************************************************)
TimerInForce ==
    /\ Cardinality(runtimeTimers) <= 1
    /\ runtimeTimers = IF batchTimer.set THEN {batchTimer.fireAt} ELSE {}
    /\ batchTimer.set => batchTimer.fireAt = batchDeadline

\* C30: the runtime has at most one timer that is running or waiting to be
\* read, the one of batchTimer, and it fires at the deadline in force (a
\* timer replaced by an extension or read by a flush is gone); the timer
\* case runs only when the deadline in force has been reached.
C30_FlushOnlyAtDeadlineInForce ==
    [][/\ TimerInForce
       /\ TimerInForce'
       /\ lastOp' \in {"flushStart", "emptyFire"} =>
            /\ batchTimer.set
            /\ now >= batchDeadline
            /\ runtimeTimers' = {}]_vars

\* A window whose first timer was replaced by an extension is flushed, at
\* or after the extended deadline.
C30_Witness ==
    /\ lastOp = "flushStart"
    /\ windowTicks >= 2
    /\ flushAt >= windowStart + AIBatchInterval + AIBatchExtendDuration
    /\ runtimeTimers = {}


(***************************************************************************)
(* The tick case of the loop (Spec).                                       *)
(***************************************************************************)
\* C22: a tick suppressed by the gate (the check fails, or reports no
\* active alert) fetches and enqueues nothing and leaves the cursor map,
\* the buffer, the timer and the deadline as they were; the loop is back at
\* the select, where the timer case is ready as soon as the deadline of an
\* open window has passed.
C22_SuppressedTickChangesNothing ==
    [][\A gate \in {"error", "inactive"} : \A d \in 0..MaxFetchTime :
         FetchTickerCase(gate, {}, d) =>
            /\ UNCHANGED <<lastMessageIDs, admitted, messageBuffer, enqCount,
                           batchTimer, batchDeadline, runtimeTimers,
                           messagesToSend, flushCount>>
            /\ pc' = "select"
            /\ (batchTimer.set /\ now' >= batchDeadline) => TimerReady']_vars

\* A tick is suppressed while a window is open and a new message waits in
\* a channel.
C22_Witness ==
    /\ lastOp = "gateSkip"
    /\ batchTimer.set
    /\ Len(messageBuffer) > 0
    /\ \E c \in Channels : NewestID(c) > lastMessageIDs[c]


\* C23: in a tick that passed the gate, a channel whose getMessages fails
\* keeps its cursor and has nothing admitted or enqueued; every other
\* channel is fetched all the same: its messages above the cursor are
\* admitted and appended to the buffer and its cursor is raised; the loop
\* is back at the select.
C23_FetchErrorIsPerSource ==
    [][\A failed \in SUBSET Channels : \A d \in 0..MaxFetchTime :
         FetchTickerCase("active", failed, d) =>
            /\ \A c \in failed :
                  /\ lastMessageIDs'[c] = lastMessageIDs[c]
                  /\ admitted'[c] = admitted[c]
                  /\ \A id \in 1..MaxPosts :
                        enqCount'[[src |-> c, id |-> id]] =
                            enqCount[[src |-> c, id |-> id]]
            /\ \A c \in Channels \ failed :
                  LET r == processNewMessages(c, source[c], lastMessageIDs)
                  IN /\ lastMessageIDs'[c] = r.lastMessageIDs[c]
                     /\ admitted'[c] = admitted[c] \cup IdsOf(r.newMessages)
                     /\ \A id \in IdsOf(r.newMessages) :
                           /\ enqCount'[[src |-> c, id |-> id]] =
                                 enqCount[[src |-> c, id |-> id]] + 1
                           /\ Occ(messageBuffer', [src |-> c, id |-> id]) =
                                 Occ(messageBuffer, [src |-> c, id |-> id]) + 1
            /\ pc' = "select"]_vars

\* A tick has enqueued the message of one channel while the message waiting
\* in the other was not fetched: that channel's getMessages failed.
C23_Witness ==
    /\ lastOp \in {"enqueueIdle", "enqueueOpen"}
    /\ \E c \in Channels :
          /\ NewestID(c) > lastMessageIDs[c]
          /\ \E other \in Channels \ {c} :
                Occ(messageBuffer,
                    [src |-> other, id |-> lastMessageIDs[other]]) = 1


(***************************************************************************)
(* The end of a flush (Spec).                                              *)
(***************************************************************************)
\* C24: when handleAIInteraction returns the error of SendMessage, nothing
\* is relayed for the batch, none of its items is put back into the buffer
\* or counted for another batch, the buffer is empty, the timer is not set
\* and the deadline is reset, and the loop is back at the select; no item
\* is ever enqueued or handed over twice.
C24_FailedBatchIsDropped ==
    [][/\ \A result \in FlushResults :
            (~result.ok /\ FlushDone(result)) =>
               /\ relay' = NoRelay
               /\ messageBuffer' = <<>>
               /\ batchTimer' = NilTimer
               /\ batchDeadline' = ZeroTime
               /\ runtimeTimers' = {}
               /\ pc' = "select"
               /\ enqCount' = enqCount
               /\ flushCount' = flushCount
               /\ lastMessageIDs' = lastMessageIDs
       /\ \A it \in Items : enqCount'[it] <= 1 /\ flushCount'[it] <= 1]_vars

\* A classification has failed, its batch is gone, and the next tick, with
\* a new message to fetch, is waiting at the select.
C24_Witness ==
    /\ lastOp = "flushFailed"
    /\ pc = "select"
    /\ \E it \in Items : flushCount[it] = 1 /\ Occ(messageBuffer, it) = 0
    /\ fetchTickerC
    /\ \E c \in Channels : NewestID(c) > lastMessageIDs[c]


(***************************************************************************)
(* Cancellation (SpecCancel, Spec).                                        *)
(***************************************************************************)
\* C21: once ctx is cancelled, the attempt of SendMessage that is under way
\* is its last: the call returns when that attempt fails, without sleeping
\* and without going round the loop again.
C21_CancelledSendReturnsPromptly ==
    [][(ctxDone /\ sendPc = "dispatch") =>
          /\ sendPc' = "returned"
          /\ slept' = 0
          /\ delays'[Len(delays')] = 0]_vars

\* C21 for the variants without a retry loop: the failed request is the end
\* of the call.
C21_SingleAttemptReturnsPromptly ==
    [][(ctxDone /\ sendPc = "dispatch" /\ AttemptCeiling(clientType) = 1) =>
          /\ sendPc' = "returned"
          /\ slept' = 0
          /\ delays'[Len(delays')] = 0]_vars

\* C21, the timer (Spec): when the loop has returned no timer is set or
\* running and the deadline is reset.
C21_TimerDisarmedAtExit ==
    pc = "done" =>
        /\ batchTimer = NilTimer
        /\ batchDeadline = ZeroTime
        /\ runtimeTimers = {}


(***************************************************************************)
(* The relay post (SpecClient).                                            *)
(***************************************************************************)
\* C25: sendToTelegram is called at most once for a result, whether or not
\* it fails; after a failed post handleAIInteraction has returned as after
\* a successful one: the result is the one SendMessage returned, the
\* history is what SendMessage left (its last entry the assistant entry of
\* the result, in the variants that append one on success), and the next
\* call can be made.
C25_PostErrorIsLoggedOnly ==
    [][/\ Len(posts') <= 1
       /\ \A postFailed \in BOOLEAN :
             Relay(postFailed) =>
                /\ sendPc' = "relayed"
                /\ sendResult' = sendResult
                /\ MessageHistory' = MessageHistory
                /\ appended' = appended
                /\ AppendsOnSuccess(clientType) /\ sendResult.ok =>
                      MessageHistory'[Len(MessageHistory')].role = "assistant"
                /\ Len(posts') = IF relay'.send THEN 1 ELSE 0]_vars

\* A post has failed: it was the only one, and the call is over.
C25_Witness ==
    /\ sendPc = "relayed"
    /\ relay.send
    /\ posts = <<"error">>
    /\ MessageHistory[Len(MessageHistory)].role = "assistant"


C27_UpdateReachesNamedVariants ==
    [][/\ updateAIClientSystemMessage =>
             /\ MessageHistory' = MessageHistory
             /\ appended' = appended
       /\ (AttemptStep /\ ~updating /\ UpdatesSystemMessage(clientType)) =>
             sentSystemMessage' = systemMessageFile]_vars


(***************************************************************************)
(* The order of admission (SpecCursor).                                    *)
(***************************************************************************)
Ascending(msgs) ==
    \A i \in 1..Len(msgs) : \A j \in 1..Len(msgs) :
        i < j => msgs[i].id < msgs[j].id

AboveWatermark(msgs, watermark) ==
    {i \in 1..Len(msgs) : msgs[i].id > watermark}

AdmittedAllOnceOldestFirst ==
    /\ IdsOf(poll.new) = {poll.in[i].id : i \in AboveWatermark(poll.in, poll.pre)}
    /\ Len(poll.new) = Cardinality(AboveWatermark(poll.in, poll.pre))
    /\ Ascending(poll.new)

\* C28: after a poll whose result came newest first or oldest first, the
\* entries above the watermark read before the poll have all been admitted,
\* each once, and the admitted entries are in ascending order of id.
C28_AdmittedOldestFirstNoneSkipped ==
    (poll.src # "" /\ (Descending(poll.in) \/ Ascending(poll.in))) =>
        AdmittedAllOnceOldestFirst

\* C28 for a result that came newest first, as MessagesGetHistory delivers.
C28_NewestFirstAdmittedOldestFirst ==
    (poll.src # "" /\ Descending(poll.in)) => AdmittedAllOnceOldestFirst


(***************************************************************************)
(* The critical sections (SpecLock).                                       *)
(***************************************************************************)
\* C26: while mu is locked no network operation is under way.
C26_NoNetworkUnderLock == mu => io = "none"

\* C26 but for the attachments: getMessages, the gate check, SendMessage
\* and sendToTelegram run with mu unlocked.
C26_OnlyDownloadsUnderLock == mu => io \in {"none", "downloadImageWithRetry"}


(***************************************************************************)
(* Attachments in the request body (SpecAttach).                           *)
(***************************************************************************)
\* The capability the variants declare.
Multimodal(v, codingPlan) ==
    \/ v \in {"claude", "chatgpt", "openrouterMain"}
    \/ v = "glm" /\ ~codingPlan

\* The content types of the attachments embedded in a request entry.
Embedded(entry) ==
    LET idx == {i \in 1..Len(entry.parts) : entry.parts[i].type # "text"}
        Pick(S) == CHOOSE i \in S : \A j \in S : i <= j
        F[S \in SUBSET idx] ==
            IF S = {} THEN <<>>
            ELSE <<entry.parts[Pick(S)].mime>> \o F[S \ {Pick(S)}]
    IN F[idx]

AttachmentsAsDeclared ==
    apiMessages # NoRequest =>
        /\ Len(apiMessages) = Len(imageHistory)
        /\ \A i \in 1..Len(imageHistory) :
              Embedded(apiMessages[i]) =
                  IF Multimodal(clientType, UseCodingPlan)
                  THEN imageHistory[i].Images
                  ELSE <<>>

\* C29: a text-only variant dispatches no attachment of any history entry,
\* a multimodal variant embeds every attachment of every history entry with
\* its content type, and the capability of a variant never changes.
C29_AttachmentsPerVariantCapability ==
    /\ []AttachmentsAsDeclared
    /\ [][clientType' = clientType /\ UseCodingPlan' = UseCodingPlan]_vars

\* A multimodal variant has sent a history of two entries, the first with
\* two attachments of different content types.
C29_Witness ==
    /\ Multimodal(clientType, UseCodingPlan)
    /\ Len(apiMessages) = 2
    /\ Len(imageHistory) = 2
    /\ imageHistory[1].Images = <<"image/png", "image/jpeg">>
    /\ Embedded(apiMessages[1]) = <<"image/png", "image/jpeg">>

\* A text-only variant has sent a history whose entry has an attachment.
C29_TextOnlyWitness ==
    /\ clientType = "glm"
    /\ UseCodingPlan
    /\ Len(imageHistory) = 1
    /\ Len(imageHistory[1].Images) > 0
    /\ apiMessages # NoRequest
    /\ Embedded(apiMessages[1]) = <<>>


(***************************************************************************)
(* Who changes the history (SpecOwner: the calls of SendMessage and the    *)
(* watcher of the system message file, interleaved).                       *)
(***************************************************************************)
\* C31: the history changes only in a step of SendMessage (its start or one
\* of its attempts), never in a step of the watcher, and SendMessage starts
\* only when no call is in flight: the call before has returned and
\* handleAIInteraction has finished with its result.
C31_HistoryOwnedBySerialSends ==
    [][/\ (MessageHistory' # MessageHistory \/ appended' # appended) =>
             /\ sendPc = "dispatch" \/ sends' = sends + 1
             /\ UNCHANGED <<systemMessageFile, SystemMessage, updating>>
       /\ sends' = sends + 1 =>
             /\ sendPc \in {"idle", "relayed"}
             /\ sendPc' = "dispatch"
       /\ (FileWritten \/ updateAIClientSystemMessage) =>
             UNCHANGED <<MessageHistory, appended, sendPc, sends>>]_vars

\* The watcher has assigned a new system message while a call was in
\* flight, after an earlier call had been relayed.
C31_Witness ==
    /\ sends = 2
    /\ sendPc = "dispatch"
    /\ SystemMessage = 1
    /\ Len(appended) >= 3


(***************************************************************************)
(* Idle and Open (Spec).                                                   *)
(***************************************************************************)
\* C32: while the loop is at its select the timer is set exactly when the
\* buffer is not empty; the timer case never finds the buffer empty, and
\* the batch handed to handleAIInteraction is never empty.
C32_TimerArmedIffBufferNonEmpty ==
    /\ pc = "select" => (batchTimer.set <=> Len(messageBuffer) > 0)
    /\ lastOp # "emptyFire"
    /\ pc = "flush" => Len(messagesToSend) > 0

\* Back at the select in Idle after a flush, and in Open with a second
\* window.
C32_Witness ==
    /\ pc = "select"
    /\ lastOp = "enqueueIdle"
    /\ batchTimer.set
    /\ Len(messageBuffer) > 0
    /\ \E it \in Items : flushCount[it] = 1


(***************************************************************************)
(* The history over the attempts of one call (SpecClient).                 *)
(***************************************************************************)
AppendsOne(role) ==
    /\ Len(appended') = Len(appended) + 1
    /\ SubSeq(appended', 1, Len(appended)) = appended
    /\ appended'[Len(appended')].role = role

\* An attempt has failed and the loop goes on to the next one.
RetryStep == sendPc = "dispatch" /\ sendPc' = "dispatch"

\* The start of a call appends the user entry, and an attempt that is
\* followed by another leaves the history as it was: every attempt of the
\* call dispatches the same history.
UserEntryOnce ==
    /\ CallStep => AppendsOne("user")
    /\ RetryStep => UNCHANGED <<MessageHistory, appended>>

\* C33: a call of SendMessage appends the user entry once, whatever the
\* number of attempts, every attempt dispatches the same history, and the
\* return appends one assistant entry if the call succeeded and nothing if
\* it failed.
C33_OneUserEntryPerSend ==
    [][/\ UserEntryOnce
       /\ ReturnStep =>
             IF sendResult'.ok THEN AppendsOne("assistant")
             ELSE UNCHANGED <<MessageHistory, appended>>]_vars

\* C33 without the assistant entry: in every variant the user entry is
\* appended once per call, no attempt but the last changes the history, and
\* the return appends no user entry.
C33_UserEntryOnceSameHistoryPerAttempt ==
    [][/\ UserEntryOnce
       /\ ReturnStep =>
             \/ UNCHANGED <<MessageHistory, appended>>
             \/ AppendsOne("assistant")]_vars

\* C33 as stated, for every variant but the ClaudeClient of src/main.go.
C33_HoldsButForClaudeMain ==
    [][clientType # "claudeMain" =>
          /\ UserEntryOnce
          /\ ReturnStep =>
                IF sendResult'.ok THEN AppendsOne("assistant")
                ELSE UNCHANGED <<MessageHistory, appended>>]_vars

\* A call of a variant that retries has succeeded at its third attempt.
C33_RetriedThenSucceeded ==
    /\ sendPc = "returned"
    /\ sendResult.ok
    /\ Len(delays) = 3
    /\ Len(appended) = 2


(***************************************************************************)
(* The order of a batch (SpecLock).                                        *)
(***************************************************************************)
SourceIndex(c) == CHOOSE k \in 1..Len(ChannelOrder) : ChannelOrder[k] = c

\* Configured source order, and ascending ids within a source.
InTickOrder(msgs) ==
    \A i \in 1..Len(msgs) : \A j \in 1..Len(msgs) :
        i < j =>
           \/ SourceIndex(msgs[i].src) < SourceIndex(msgs[j].src)
           \/ msgs[i].src = msgs[j].src /\ msgs[i].id < msgs[j].id

\* The items named in a merged content, in the order they appear: the
\* channel and the time that follow each "Message from ".
RECURSIVE NamedIn(_)
NamedIn(content) ==
    IF Len(content) < 5 THEN <<>>
    ELSE IF Head(content) = "Message from "
         THEN <<[src |-> content[2], time |-> content[5]]>>
                 \o NamedIn(Tail(content))
         ELSE NamedIn(Tail(content))

HasImages(msg) == Len(msg.Images) > 0

\* C34: an enqueue puts the items of the tick after the ones in the buffer,
\* in source order and by ascending id within a source; the merged message
\* names the items of the batch in the order of the buffer, and its images
\* are the images of the items in that order.
C34_BatchKeepsEnqueueOrder ==
    [][/\ (step = "enqueue" /\ step' = "select") =>
             /\ Len(messageBuffer') > Len(messageBuffer)
             /\ SubSeq(messageBuffer', 1, Len(messageBuffer)) = messageBuffer
             /\ InTickOrder(SubSeq(messageBuffer', Len(messageBuffer) + 1,
                                   Len(messageBuffer')))
       /\ (step = "take" /\ step' = "SendMessage") =>
             /\ messagesToSend' = messageBuffer
             /\ NamedIn(mergedMessage'.Content) =
                   [i \in 1..Len(messageBuffer) |->
                       [src |-> messageBuffer[i].src,
                        time |-> TimeStamp(messageBuffer[i].id)]]
             /\ LET withImages == SelectSeq(messageBuffer, HasImages)
                IN mergedMessage'.Images =
                      [i \in 1..Len(withImages) |-> ItemOf(withImages[i])]]_vars

\* A batch of two ticks is in flight: two items of the first channel and
\* one of the second, then a third item of the first channel.
C34_Witness ==
    /\ step = "SendMessage"
    /\ [i \in 1..Len(messagesToSend) |-> ItemOf(messagesToSend[i])] =
          <<[src |-> ChannelOrder[1], id |-> 1],
            [src |-> ChannelOrder[1], id |-> 2],
            [src |-> ChannelOrder[2], id |-> 1],
            [src |-> ChannelOrder[1], id |-> 3]>>
    /\ mergedMessage.Images = <<[src |-> ChannelOrder[1], id |-> 2]>>


(***************************************************************************)
(* The filter between admission and the buffer (SpecFilter).               *)
(***************************************************************************)
\* processNewMessages returns and its messages are filtered and collected.
CollectStep == step = "processNewMessages" /\ step' = "channel"

\* The messages the step admits, as getMessages returned them.
AdmittedNow ==
    processNewMessages(ChannelOrder[channelIndex], gotMessages,
                       lastMessageIDs).newMessages

\* The items the step adds to the messages of the tick.
CollectedNow ==
    {ItemOf(newlyFetched'[j]) : j \in Len(newlyFetched) + 1..Len(newlyFetched')}

\* C35: an admitted item goes on to the buffer iff its text, cleaned, is
\* not empty or it has an attachment; the cursor is raised past it either
\* way; and a tick that leaves nothing to enqueue changes neither the
\* buffer nor the timer.
C35_EnqueuedIffTextOrAttachment ==
    [][/\ CollectStep =>
             \A i \in 1..Len(AdmittedNow) :
                LET m == AdmittedNow[i]
                    c == ChannelOrder[channelIndex]
                IN /\ [src |-> c, id |-> m.id] \in CollectedNow <=>
                         \/ Len(cleanString(m.text)) > 0
                         \/ m.photo = "ok"
                   /\ lastMessageIDs'[c] >= m.id
       /\ (step = "channel" /\ step' = "select") =>
             UNCHANGED <<messageBuffer, batchTimer, batchDeadline>>]_vars

\* What the code does: the text that is cleaned and tested begins with the
\* time of the message, so that the test of line 525 never fails and every
\* admitted item is collected, whatever its text and attachments.
C35_EveryAdmittedItemIsCollected ==
    [][CollectStep =>
          \A i \in 1..Len(AdmittedNow) :
             /\ [src |-> ChannelOrder[channelIndex], id |-> AdmittedNow[i].id]
                   \in CollectedNow
             /\ lastMessageIDs'[ChannelOrder[channelIndex]]
                   >= AdmittedNow[i].id]_vars

\* An item with no text and no attachment is in the buffer and has opened
\* a window.
C35_EmptyItemEnqueued ==
    /\ step = "select"
    /\ batchTimer.set
    /\ Len(messageBuffer) = 1
    /\ messageBuffer[1].Images = <<>>
    /\ messageBuffer[1].Content =
          <<"Message from ", messageBuffer[1].src, ":", "\n",
            TimeStamp(messageBuffer[1].id)>>


(***************************************************************************)
(* The end of the loop (SpecStop).                                         *)
(***************************************************************************)
\* C36: once ctx is cancelled the loop returns sooner or later, also when
\* the cancellation comes while handleAIInteraction is running; and once it
\* has returned nothing is fetched, enqueued, taken or handed over any
\* more: what is in the buffer stays there.
C36_CancelledLoopTerminates ==
    /\ ctxDone ~> (pc = "done")
    /\ [][pc = "done" =>
             UNCHANGED <<lastMessageIDs, messageBuffer, messagesToSend,
                         batchTimer, enqCount, flushCount, relay, sends,
                         lastOp, pc>>]_vars

\* The loop has returned with an item in the buffer that was never handed
\* over; the cancellation came during a flush.
C36_Witness ==
    /\ pc = "done"
    /\ Len(messageBuffer) > 0
    /\ \E it \in Items : enqCount[it] = 1 /\ flushCount[it] = 0
    /\ \E it \in Items : flushCount[it] = 1

\* The flush that is in progress ends (SpecCancel): with ctx cancelled every
\* attempt of SendMessage fails at once, and each failure is the last
\* attempt or brings the loop one attempt nearer to its ceiling.
C36_RetriesEndAfterCancel ==
    [][(ctxDone /\ AttemptStep) =>
          /\ lastReply' = "transportError"
          /\ \/ sendPc' = "returned"
             \/ /\ attempt' = attempt + 1
                /\ attempt' < AttemptCeiling(clientType)]_vars

=============================================================================
